---- MODULE Spec2Model ----
(***************************************************************************)
(* Model of cartomancer's `show` command (cmd/show.go): the lookup of a   *)
(* card's ANSI art (pre-rendered file, else art cache, else render from a  *)
(* source image), the on-disk art cache shared by separate invocations,    *)
(* and what each invocation finally prints.                                *)
(*                                                                         *)
(* One card is shown (a known major arcana card).  Every invocation of the *)
(* command is a process that walks through findAnsiFile, generateAnsiArt,  *)
(* loadAnsiArt and displayCard one file-system call at a time.  Spec runs  *)
(* the invocations one after the other; RaceSpec lets them overlap;        *)
(* RunSpec runs them on any configuration, deck and arguments.             *)
(*                                                                         *)
(* The functions of show.go that compute without touching the disk are     *)
(* also evaluated on their own, on arguments drawn from bounded sets:      *)
(* RenderSpec (imageToAnsi, getColorAt, averageColor, ansiColorString),    *)
(* StripSpec (stripAnsi and the width displayCard measures) and WrapSpec   *)
(* (wrapText).                                                             *)
(***************************************************************************)
EXTENDS Integers, Sequences, FiniteSets, TLC

VARIABLES
    ansi,       \* deck: the pre-rendered art, per directory ansi32 / ansi256
    images,     \* deck: content of every candidate source image file
    cacheDir,   \* the directory <cache>/ansi_cache
    cache,      \* files of the cache directory: cache file name -> content
    proc,       \* the invocations of `show`: position and local variables
    shows,      \* number of invocations started so far
    edits,      \* number of changes made to the deck's images so far
    deck,       \* configuration and deck as the command finds them on disk
    config,     \* the config file of the program (config.toml)
    calc        \* one evaluation of a function of show.go on its own

vars == <<ansi, images, cacheDir, cache, proc, shows, edits, deck, config, calc>>

----------------------------------------------------------------------------
(* Bounds of the model *)

\* invocations of `show` over a run
MaxShows == 2
\* changes to the deck's image files over a run
MaxEdits == 1
\* glyph columns of the rendered grid (40 in generateAnsiArt)
ArtCols == 1
\* glyph rows of the rendered grid (32 in generateAnsiArt)
ArtRows == 2
\* longest side, in pixels, of a source picture given to imageToAnsi
MaxSide == 3
\* largest number of glyph columns or rows asked of imageToAnsi
MaxGrid == 2
\* longest string, in characters, given to stripAnsi
MaxStrLen == 5
\* longest text, in characters, given to wrapText
MaxTextLen == 13
\* largest width given to wrapText
MaxWidth == 11
\* most rows of an art given to displayCard on its own
MaxArtLines == 5
\* widest terminal displayCard is given on its own
MaxTermWidth == 32
\* most parts of a card ID given to GetCard on its own
MaxParts == 4
\* commands on the config file over a run
MaxCalls == 3
\* most image files of the card in a deck given to findCardImage on its own
MaxFiles == 2

Procs == {"p1", "p2"}

\* a color.RGBA value (alpha-premultiplied, every channel 0..255)
RGBA(r, g, b, a) == [R |-> r, G |-> g, B |-> b, A |-> a]

\* pixel colours of the one-colour pictures a source file may hold: fully
\* transparent, and opaque white
Pictures == {RGBA(0, 0, 0, 0), RGBA(255, 255, 255, 255)}

\* the absent path (the "" of the source)
NoPath == <<>>

\* content of a source image file: absent, undecodable, or a picture; px is
\* the decoded picture as its rows of pixels (of an absent or undecodable
\* file nothing is decoded and px is not read)
NoImage == [kind |-> "absent", px |-> <<<<RGBA(0, 0, 0, 0)>>>>]
Corrupt == [kind |-> "corrupt", px |-> <<<<RGBA(0, 0, 0, 0)>>>>]
\* a decoded picture with the pixel rows px
Decoded(px) == [kind |-> "picture", px |-> px]
\* the picture of one pixel of colour c
Picture(c) == Decoded(<<<<c>>>>)
ImageContents == {NoImage, Corrupt} \cup {Picture(c) : c \in Pictures}

----------------------------------------------------------------------------
(* Paths *)

\* the image directories findCardImage tries first, in priority order
imageDirs == <<"scalable", "h2400", "h1200", "h750">>

\* the image file extensions findCardImage tries, in order
extensions == <<".svg", ".png", ".jpg", ".jpeg", ".webp">>

\* buildCardPath for the shown card: the file of the card below baseDir
buildCardPath(baseDir, extension) == <<baseDir, "major_arcana", "00", extension>>

\* the image files the deck of the model may hold: one in a standard
\* directory, one in a directory of another name
DeckFiles == {buildCardPath("h750", ".png"), buildCardPath("h300", ".jpg")}

\* os.ReadDir(deckPath): the deck's directories, sorted by name
entries ==
    <<"ansi256", "ansi32", "art", "card_backs", "h1200", "h2400", "h300",
      "h750", "names", "scalable">>

Ansi32Path == buildCardPath("ansi32", ".ansi")
Ansi256Path == buildCardPath("ansi256", ".ansi")

\* name of the cache file of a source image: "%x.ansi" of the md5 of its path
cacheFilename(imagePath) == <<"ansi_cache", "md5 of">> \o imagePath \o <<".ansi">>

CacheFiles == {cacheFilename(f) : f \in DeckFiles}

----------------------------------------------------------------------------
(* findCardImage *)

Exists(imgs, path) == path \in DOMAIN imgs /\ imgs[path].kind # "absent"

contains(slice, item) == \E i \in 1..Len(slice) : slice[i] = item

\* the first existing file among baseDir's candidates, in the order of the
\* extensions; NoPath when there is none
FirstInDir(imgs, baseDir) ==
    LET found == {j \in 1..Len(extensions) :
                     Exists(imgs, buildCardPath(baseDir, extensions[j]))}
    IN  IF found = {} THEN NoPath
        ELSE buildCardPath(baseDir,
                 extensions[CHOOSE j \in found : \A k \in found : j <= k])

\* the first directory of dirs (from index i on) that holds a candidate
RECURSIVE FirstInDirs(_, _, _)
FirstInDirs(imgs, dirs, i) ==
    IF i > Len(dirs) THEN NoPath
    ELSE IF FirstInDir(imgs, dirs[i]) # NoPath THEN FirstInDir(imgs, dirs[i])
    ELSE FirstInDirs(imgs, dirs, i + 1)

\* the deck's other directories that findCardImage visits after imageDirs
otherDirs ==
    SelectSeq(entries, LAMBDA dirName :
        ~(dirName = "ansi32" \/ dirName = "ansi256" \/ dirName = "card_backs"
          \/ dirName = "names" \/ contains(imageDirs, dirName)))

\* findCardImage as it would be without the os.Stat test of the candidates:
\* the first candidate path is returned whether the file exists or not
findCardImageUnchecked(imgs) == buildCardPath(imageDirs[1], extensions[1])

\* findCardImage as it would be if it looked into the deck's other
\* directories before the standard ones
findCardImageOtherFirst(imgs) ==
    IF FirstInDirs(imgs, otherDirs, 1) # NoPath
    THEN FirstInDirs(imgs, otherDirs, 1)
    ELSE FirstInDirs(imgs, imageDirs, 1)

\* findCardImage: the image to convert, NoPath for "no image found for card"
findCardImage(imgs) ==
    IF FirstInDirs(imgs, imageDirs, 1) # NoPath
    THEN FirstInDirs(imgs, imageDirs, 1)
    ELSE FirstInDirs(imgs, otherDirs, 1)

----------------------------------------------------------------------------
(* imageToAnsi *)

\* img.Bounds() of an image whose pixel rows start at (0, 0)
Bounds(img) ==
    [Min |-> [X |-> 0, Y |-> 0],
     Max |-> [X |-> Len(img.px[1]), Y |-> Len(img.px)]]

\* img.At(x, y), for (x, y) inside the bounds
At(img, x, y) == img.px[y + 1][x + 1]

\* resize.Resize(w, h, img, resize.Lanczos3) for w, h > 0: an image of exactly
\* w x h pixels whose bounds start at (0, 0).  The interpolation is taken as
\* the nearest source pixel (a picture of one colour keeps its colour, as
\* under the normalised Lanczos kernel).
Resize(w, h, img) ==
    Decoded([y \in 1..h |-> [x \in 1..w |->
        At(img, ((x - 1) * Bounds(img).Max.X) \div w,
                ((y - 1) * Bounds(img).Max.Y) \div h)]])

\* getColorAt as it would be without the test of the bounds: the coordinate
\* is clamped to the nearest pixel of the image
getColorAtClamped(img, x, y) ==
    LET bounds == Bounds(img)
        cx == IF x < bounds.Max.X THEN x ELSE bounds.Max.X - 1
        cy == IF y < bounds.Max.Y THEN y ELSE bounds.Max.Y - 1
    IN  At(img, IF cx < 0 THEN 0 ELSE cx, IF cy < 0 THEN 0 ELSE cy)

\* getColorAt: the pixel, opaque black outside the bounds
getColorAt(img, x, y) ==
    LET bounds == Bounds(img)
    IN  IF x >= bounds.Min.X /\ x < bounds.Max.X
           /\ y >= bounds.Min.Y /\ y < bounds.Max.Y
        THEN At(img, x, y)
        ELSE RGBA(0, 0, 0, 255)

\* colorful.MakeColor: the colour without its alpha, and whether the
\* conversion succeeded (it fails on alpha 0 and gives black).  A channel of
\* a colorful.Color is kept as the number of 510ths it stands for, which is
\* exact for the channels of an opaque colour and for the mean of two.
MakeColor(c) ==
    IF c.A = 0
    THEN [col |-> [R |-> 0, G |-> 0, B |-> 0], ok |-> FALSE]
    ELSE [col |-> [R |-> (2 * c.R * 255) \div c.A,
                   G |-> (2 * c.G * 255) \div c.A,
                   B |-> (2 * c.B * 255) \div c.A], ok |-> TRUE]

\* averageColor as it would be if the first colour counted twice
averageColorWeighted(c1, c2) ==
    [R |-> (2 * c1.R + c2.R) \div 3, G |-> (2 * c1.G + c2.G) \div 3,
     B |-> (2 * c1.B + c2.B) \div 3]

\* averageColor of two colours: the sums of the channels over the count
averageColor(c1, c2) ==
    [R |-> (c1.R + c2.R) \div 2, G |-> (c1.G + c2.G) \div 2,
     B |-> (c1.B + c2.B) \div 2]

\* colorfulToColor: uint8(c.R * 255) of every channel, alpha 255
colorfulToColor(c) ==
    RGBA(((c.R * 255) \div 510) % 256, ((c.G * 255) \div 510) % 256,
         ((c.B * 255) \div 510) % 256, 255)

\* the channels r, g, b that ansiColorString prints of a colour: the 16-bit
\* values of c.RGBA() shifted down by 8
Channels(c) == <<(c.R * 257) \div 256, (c.G * 257) \div 256, (c.B * 257) \div 256>>

\* ansiColorString: one glyph cell, as the parts of the string: the glyph,
\* the channels of the two colour sequences (none in the 16-color fallback)
\* and whether the reset sequence ends it
ansiColorString(char, fg, bg, use256Colors) ==
    IF use256Colors
    THEN [glyph |-> char, fg |-> Channels(fg), bg |-> Channels(bg), reset |-> TRUE]
    ELSE [glyph |-> char, fg |-> <<>>, bg |-> <<>>, reset |-> FALSE]

\* the characters of a string are kept one by one: ESC is \x1b (\033)
ESC == "ESC"

\* "%d" of a number that is not negative
RECURSIVE FormatInt(_)
FormatInt(n) ==
    LET digit == <<"0", "1", "2", "3", "4", "5", "6", "7", "8", "9">>[(n % 10) + 1]
    IN  IF n < 10 THEN <<digit>> ELSE Append(FormatInt(n \div 10), digit)

\* the colour sequence "\x1b[<code>;2;<r>;<g>;<b>m" of a cell (code "38" for
\* the foreground, "48" for the background)
ColorSequence(code, rgb) ==
    <<ESC, "[">> \o code \o <<";", "2", ";">> \o FormatInt(rgb[1]) \o <<";">>
        \o FormatInt(rgb[2]) \o <<";">> \o FormatInt(rgb[3]) \o <<"m">>

\* the reset sequence "\x1b[0m"
ResetSequence == <<ESC, "[", "0", "m">>

\* the cell's string as it would be without the reset sequence at its end
CellStringNoReset(cell) ==
    IF cell.reset
    THEN ColorSequence(<<"3", "8">>, cell.fg) \o ColorSequence(<<"4", "8">>, cell.bg)
            \o <<cell.glyph>>
    ELSE <<cell.glyph>>

\* the string ansiColorString returns for a cell, character by character:
\* fmt.Sprintf of the two colour sequences, the glyph and the reset sequence,
\* or string(char) in the 16-color fallback
CellString(cell) ==
    IF cell.reset
    THEN ColorSequence(<<"3", "8">>, cell.fg) \o ColorSequence(<<"4", "8">>, cell.bg)
            \o <<cell.glyph>> \o ResetSequence
    ELSE <<cell.glyph>>

\* one row of the art: width cells and the line feed that ends it
AnsiRow(resized, y, width, use256Colors) ==
    [cells |-> [i \in 1..width |->
                  LET x == 2 * (i - 1)
                      col1 == MakeColor(getColorAt(resized, x, y)).col
                      col2 == MakeColor(getColorAt(resized, x + 1, y)).col
                      col3 == MakeColor(getColorAt(resized, x, y + 1)).col
                      col4 == MakeColor(getColorAt(resized, x + 1, y + 1)).col
                      upperHalfFg == averageColor(col1, col2)
                      lowerHalfBg == averageColor(col3, col4)
                  IN  ansiColorString("upper half block",
                                      colorfulToColor(upperHalfFg),
                                      colorfulToColor(lowerHalfBg), use256Colors)],
     nl |-> TRUE]

\* imageToAnsi as it would be if its outer loop advanced by one pixel, not two
imageToAnsiEveryPixel(img, width, height, use256Colors) ==
    LET resized == Resize(width * 2, height * 2, img)
    IN  [r \in 1..(2 * height) |-> AnsiRow(resized, r - 1, width, use256Colors)]

\* imageToAnsi: the art text, as the sequence of its rows
imageToAnsi(img, width, height, use256Colors) ==
    LET resized == Resize(width * 2, height * 2, img)
    IN  [r \in 1..height |-> AnsiRow(resized, 2 * (r - 1), width, use256Colors)]

\* the art generateAnsiArt makes of a decoded picture
RenderedArt(content) == imageToAnsi(content, ArtCols, ArtRows, TRUE)

\* every complete rendering of a picture
CompleteArts == {RenderedArt(Picture(c)) : c \in Pictures}

----------------------------------------------------------------------------
(* Files *)

\* a span of a file that was never written (it reads as NUL bytes)
Hole == [cells |-> <<>>, nl |-> FALSE]

NoFile == [exists |-> FALSE, data |-> <<>>]
File(data) == [exists |-> TRUE, data |-> data]

\* the write as it would be with the position off by one
WriteAtShifted(data, pos, piece) ==
    [i \in 1..(IF pos + 1 > Len(data) THEN pos + 1 ELSE Len(data)) |->
        IF i = pos + 1 THEN piece
        ELSE IF i <= Len(data) THEN data[i]
        ELSE Hole]

\* the write as it would be on a file opened with O_APPEND: every piece
\* goes to the end of the file
WriteAppend(data, pos, piece) == Append(data, piece)

\* write(2) of one piece at position pos (1-based) of a file's data
WriteAt(data, pos, piece) ==
    [i \in 1..(IF pos > Len(data) THEN pos ELSE Len(data)) |->
        IF i = pos THEN piece
        ELSE IF i <= Len(data) THEN data[i]
        ELSE Hole]

----------------------------------------------------------------------------
(* The command's arguments, the configuration and the deck's description *)

\* the card of the model's deck that has art: cardID split at the dots
TheCard == <<"major_arcana", "00">>

\* the card IDs the command may be given
CardIDs == {TheCard, <<"major_arcana", "22">>, <<"major_arcana">>,
            <<"minor_arcana", "coins", "ace">>}

\* values of the --deck flag: not given, or the name of a deck
DeckFlags == {"", "rider-waite-smith"}

\* what the command finds on disk: the config file (LoadConfig succeeds or
\* not), the deck directory (GetDeckPath finds it or not), deck.toml, and
\* the names directory: absent, with en.toml, with an en.toml that does not
\* parse, or without en.toml and not listable (os.ReadDir fails)
GoodDeck == [config |-> "ok", found |-> TRUE, toml |-> "ok", names |-> "en"]

DeckStates ==
    {GoodDeck, [GoodDeck EXCEPT !.config = "bad"],
     [GoodDeck EXCEPT !.found = FALSE],
     [GoodDeck EXCEPT !.toml = "missing"], [GoodDeck EXCEPT !.toml = "bad"],
     [GoodDeck EXCEPT !.names = "nodir"], [GoodDeck EXCEPT !.names = "bad"],
     [GoodDeck EXCEPT !.names = "unreadable"]}

\* the cards loadCardInfo creates
MajorArcana ==
    {"00", "01", "02", "03", "04", "05", "06", "07", "08", "09", "10",
     "11", "12", "13", "14", "15", "16", "17", "18", "19", "20", "21"}
suits == {"wands", "cups", "swords", "pentacles"}
ranks == {"ace", "two", "three", "four", "five", "six", "seven", "eight",
          "nine", "ten", "page", "knight", "queen", "king"}

\* Deck.GetCard: the error, "none" for nil
GetCardError(parts) ==
    IF Len(parts) < 2 THEN "invalid card ID format"
    ELSE IF parts[1] = "major_arcana" /\ Len(parts) = 2
    THEN IF parts[2] \in MajorArcana THEN "none" ELSE "card not found"
    ELSE IF parts[1] = "minor_arcana" /\ Len(parts) = 3
    THEN IF parts[2] \notin suits THEN "suit not found"
         ELSE IF parts[3] \notin ranks THEN "card not found"
         ELSE "none"
    ELSE "invalid card ID format"

\* loadCardInfo: the error, "none" for nil.  Without a names directory, and
\* when the directory has no en.toml and cannot be listed, the default names
\* are set and nil is returned.
loadCardInfoError(d) ==
    IF d.names = "nodir" THEN "none"
    ELSE IF d.names \in {"unreadable", "empty"} THEN "none"
    ELSE IF d.names \in {"bad", "notoml"} THEN "error parsing language file"
    ELSE "none"

\* a card.Card; a name is the sequence of the pieces it is formatted of, ""
\* the empty sequence; an ID the sequence of its parts
Card(id, type, number, suit, rank) ==
    [ID |-> id, Name |-> <<>>, Type |-> type, Number |-> number,
     Suit |-> suit, Rank |-> rank, AltText |-> <<>>]

\* getDefaultMajorArcanaName
getDefaultMajorArcanaName(number) ==
    LET names ==
          [n \in MajorArcana |->
             CASE n = "00" -> "The Fool" [] n = "01" -> "The Magician"
               [] n = "02" -> "The High Priestess" [] n = "03" -> "The Empress"
               [] n = "04" -> "The Emperor" [] n = "05" -> "The Hierophant"
               [] n = "06" -> "The Lovers" [] n = "07" -> "The Chariot"
               [] n = "08" -> "Strength" [] n = "09" -> "The Hermit"
               [] n = "10" -> "Wheel of Fortune" [] n = "11" -> "Justice"
               [] n = "12" -> "The Hanged Man" [] n = "13" -> "Death"
               [] n = "14" -> "Temperance" [] n = "15" -> "The Devil"
               [] n = "16" -> "The Tower" [] n = "17" -> "The Star"
               [] n = "18" -> "The Moon" [] n = "19" -> "The Sun"
               [] n = "20" -> "Judgement" [] n = "21" -> "The World"]
    IN  IF number \in DOMAIN names THEN <<names[number]>>
        ELSE <<"Major Arcana ", number>>

\* strings.Title, and strings.ToUpper of the first letter, of the ranks and
\* suits loadCardInfo creates
Title(word) ==
    CASE word = "ace" -> "Ace" [] word = "two" -> "Two"
      [] word = "three" -> "Three" [] word = "four" -> "Four"
      [] word = "five" -> "Five" [] word = "six" -> "Six"
      [] word = "seven" -> "Seven" [] word = "eight" -> "Eight"
      [] word = "nine" -> "Nine" [] word = "ten" -> "Ten"
      [] word = "page" -> "Page" [] word = "knight" -> "Knight"
      [] word = "queen" -> "Queen" [] word = "king" -> "King"
      [] word = "wands" -> "Wands" [] word = "cups" -> "Cups"
      [] word = "swords" -> "Swords" [] word = "pentacles" -> "Pentacles"

\* getDefaultMinorArcanaName
getDefaultMinorArcanaName(rank, suit) == <<Title(rank), " of ", Title(suit)>>

\* the content of the language file of the model's names directory: a name
\* and an alt text for major_arcana.00, an empty name for major_arcana.01, a
\* name for a card that is not of the deck, and a name for the ace of wands
LanguageFile ==
    [MajorArcana |-> [n \in {"00", "01", "99"} |->
                        IF n = "00" THEN <<"Le Mat">>
                        ELSE IF n = "01" THEN <<>> ELSE <<"Nobody">>],
     MajorArcanaAltText |-> [n \in {"00"} |-> <<"a", " ", "f", "o", "o", "l">>],
     MinorArcana |-> [s \in {"wands"} |->
                        [r \in {"ace"} |-> <<"As de Batons">>]]]

\* loadCardInfo: the error and the cards of the deck.  The 22 + 56 cards are
\* created first; the names are the default ones (setDefaultNames) unless a
\* language file was decoded, and then those of the file, the default name
\* replacing every name left empty
loadCardInfo(d) ==
    LET named == d.names \in {"en", "other"}
        fileName(parts) ==
            IF ~named THEN <<>>
            ELSE IF Len(parts) = 2
            THEN (IF parts[2] \in DOMAIN LanguageFile.MajorArcana
                  THEN LanguageFile.MajorArcana[parts[2]] ELSE <<>>)
            ELSE IF parts[2] \in DOMAIN LanguageFile.MinorArcana
                    /\ parts[3] \in DOMAIN LanguageFile.MinorArcana[parts[2]]
            THEN LanguageFile.MinorArcana[parts[2]][parts[3]]
            ELSE <<>>
        altText(n) ==
            IF named /\ n \in DOMAIN LanguageFile.MajorArcanaAltText
            THEN LanguageFile.MajorArcanaAltText[n] ELSE <<>>
    IN  [err |-> loadCardInfoError(d),
         MajorArcana |->
            [n \in MajorArcana |->
                [Card(<<"major_arcana", n>>, "major_arcana", n, "", "")
                 EXCEPT !.Name = IF fileName(<<"major_arcana", n>>) # <<>>
                                 THEN fileName(<<"major_arcana", n>>)
                                 ELSE getDefaultMajorArcanaName(n),
                        !.AltText = altText(n)]],
         MinorArcana |->
            [s \in suits |-> [r \in ranks |->
                [Card(<<"minor_arcana", s, r>>, "minor_arcana", "", s, r)
                 EXCEPT !.Name = IF fileName(<<"minor_arcana", s, r>>) # <<>>
                                 THEN fileName(<<"minor_arcana", s, r>>)
                                 ELSE getDefaultMinorArcanaName(r, s)]]]]

\* LoadDeck as it would be if it went on without a deck.toml
LoadDeckErrorLenient(d) ==
    IF d.toml = "bad" THEN "error parsing deck.toml"
    ELSE IF loadCardInfoError(d) # "none" THEN "error loading card info"
    ELSE "none"

\* deck.LoadDeck: the error, "none" for nil
LoadDeckError(d) ==
    IF d.toml = "missing" THEN "deck.toml not found"
    ELSE IF d.toml = "bad" THEN "error parsing deck.toml"
    ELSE IF loadCardInfoError(d) # "none" THEN "error loading card info"
    ELSE "none"

\* no deck, no card: the nil a function returns with its error
NoDeck == [MajorArcana |-> <<>>, MinorArcana |-> <<>>]
NoCard == Card(<<>>, "", "", "", "")

\* deck.LoadDeck: the error and the deck
LoadDeck(d) ==
    [err |-> LoadDeckError(d),
     deck |-> IF LoadDeckError(d) # "none" THEN NoDeck
              ELSE [MajorArcana |-> loadCardInfo(d).MajorArcana,
                    MinorArcana |-> loadCardInfo(d).MinorArcana]]

\* Deck.GetCard as it would be if it did not look at the number of parts
GetCardAnyLength(loaded, parts) ==
    IF Len(parts) < 2 THEN [card |-> NoCard, err |-> "invalid card ID format"]
    ELSE IF parts[1] = "major_arcana"
    THEN IF parts[2] \in DOMAIN loaded.MajorArcana
         THEN [card |-> loaded.MajorArcana[parts[2]], err |-> "none"]
         ELSE [card |-> NoCard, err |-> "card not found"]
    ELSE IF parts[1] = "minor_arcana" /\ Len(parts) >= 3
    THEN IF parts[2] \notin DOMAIN loaded.MinorArcana
         THEN [card |-> NoCard, err |-> "suit not found"]
         ELSE IF parts[3] \notin DOMAIN loaded.MinorArcana[parts[2]]
         THEN [card |-> NoCard, err |-> "card not found"]
         ELSE [card |-> loaded.MinorArcana[parts[2]][parts[3]], err |-> "none"]
    ELSE [card |-> NoCard, err |-> "invalid card ID format"]

\* Deck.GetCard: the card and the error
GetCard(loaded, parts) ==
    IF Len(parts) < 2 THEN [card |-> NoCard, err |-> "invalid card ID format"]
    ELSE IF parts[1] = "major_arcana" /\ Len(parts) = 2
    THEN IF parts[2] \in DOMAIN loaded.MajorArcana
         THEN [card |-> loaded.MajorArcana[parts[2]], err |-> "none"]
         ELSE [card |-> NoCard, err |-> "card not found"]
    ELSE IF parts[1] = "minor_arcana" /\ Len(parts) = 3
    THEN IF parts[2] \notin DOMAIN loaded.MinorArcana
         THEN [card |-> NoCard, err |-> "suit not found"]
         ELSE IF parts[3] \notin DOMAIN loaded.MinorArcana[parts[2]]
         THEN [card |-> NoCard, err |-> "card not found"]
         ELSE [card |-> loaded.MinorArcana[parts[2]][parts[3]], err |-> "none"]
    ELSE [card |-> NoCard, err |-> "invalid card ID format"]

\* RunE up to the card: the error it returns, "none" when the deck path is
\* resolved, the deck loaded and the card found.  (os.Stat(deckPath) repeats
\* on the same directory the test GetDeckPath has just passed.)
RunError(d, deckFlag, cardID) ==
    IF deckFlag # "" /\ ~d.found THEN "deck not found"
    ELSE IF deckFlag = "" /\ d.config = "bad" THEN "error getting default deck"
    ELSE IF deckFlag = "" /\ ~d.found THEN "error loading default deck"
    ELSE IF LoadDeckError(d) # "none" THEN "error loading deck"
    ELSE IF GetCardError(cardID) # "none" THEN "error getting card"
    ELSE "none"

\* no function of show.go is being evaluated on its own
NoCall == [fn |-> "none"]

\* the config file: absent, not decodable, or holding default_deck (an empty
\* file decodes to the default deck "")
ConfigFile(state, name) == [state |-> state, DefaultDeck |-> name]

\* createDefaultConfig: the file it leaves, the config and the error it
\* returns; io tells whether creating the file and encoding into it succeed
createDefaultConfig(cfg, io) ==
    IF io = "createFails"
    THEN [file |-> cfg, DefaultDeck |-> "", err |-> "error creating config file"]
    ELSE IF io = "encodeFails"
    THEN [file |-> ConfigFile("ok", ""), DefaultDeck |-> "", err |-> "error encoding config"]
    ELSE [file |-> ConfigFile("ok", "rider-waite-smith"),
          DefaultDeck |-> "rider-waite-smith", err |-> "none"]

\* config.LoadConfig
LoadConfig(cfg, io) ==
    IF cfg.state = "absent" THEN createDefaultConfig(cfg, io)
    ELSE IF cfg.state = "bad"
    THEN [file |-> cfg, DefaultDeck |-> "", err |-> "error decoding config file"]
    ELSE [file |-> cfg, DefaultDeck |-> cfg.DefaultDeck, err |-> "none"]

\* config.GetDefaultDeck
GetDefaultDeck(cfg, io) == LoadConfig(cfg, io)

\* config.SetDefaultDeck: os.Create empties the file before the config is
\* encoded into it
SetDefaultDeck(cfg, deckName, io) ==
    LET loaded == LoadConfig(cfg, io)
    IN  IF loaded.err # "none" THEN [file |-> loaded.file, err |-> loaded.err]
        ELSE IF io = "createFails"
        THEN [file |-> loaded.file, err |-> "error opening config file"]
        ELSE IF io = "encodeFails"
        THEN [file |-> ConfigFile("ok", ""), err |-> "error encoding config"]
        ELSE [file |-> ConfigFile("ok", deckName), err |-> "none"]

\* the names given to set-default, and what os.Stat and LoadDeck find of
\* them: a deck of the library, a deck of the library without names, a deck
\* at a relative path, a library directory without deck.toml, and nothing
DeckNames == {"rider-waite-smith", "marseille", "./my-deck", "broken", "nowhere"}

OnDisk(deckName) ==
    CASE deckName = "rider-waite-smith" -> [where |-> "library", d |-> GoodDeck]
      [] deckName = "marseille" ->
           [where |-> "library", d |-> [GoodDeck EXCEPT !.names = "nodir"]]
      [] deckName = "./my-deck" -> [where |-> "path", d |-> GoodDeck]
      [] deckName = "broken" ->
           [where |-> "library", d |-> [GoodDeck EXCEPT !.toml = "missing"]]
      [] OTHER -> [where |-> "none", d |-> [GoodDeck EXCEPT !.found = FALSE]]

\* config.GetDeckPath: the library's directory of that name if there is one,
\* else the name as a path if there is one, else an error
GetDeckPath(deckName) ==
    IF OnDisk(deckName).where = "library"
    THEN [path |-> <<"library", deckName>>, err |-> "none"]
    ELSE IF OnDisk(deckName).where = "path"
    THEN [path |-> <<deckName>>, err |-> "none"]
    ELSE [path |-> NoPath, err |-> "deck not found"]

\* deckSetDefaultCmd.Run: the config file it leaves and the line it prints
deckSetDefaultCmd(cfg, deckName, io) ==
    IF GetDeckPath(deckName).err # "none"
    THEN [file |-> cfg, printed |-> "Error: deck not found"]
    ELSE IF LoadDeckError(OnDisk(deckName).d) # "none"
    THEN [file |-> cfg, printed |-> "Error: Not a valid deck"]
    ELSE LET set == SetDefaultDeck(cfg, deckName, io)
         IN  IF set.err # "none"
             THEN [file |-> set.file, printed |-> "Error setting default deck"]
             ELSE [file |-> set.file, printed |-> "Default deck set to"]

----------------------------------------------------------------------------
(* Initial state *)

IdleProc ==
    [pc |-> "idle", n |-> 0, deckFlag |-> "", cardID |-> NoPath,
     branch |-> "none", ansiPath |-> NoPath,
     imagePath |-> NoPath, cachePath |-> NoPath, ansiArt |-> <<>>, off |-> 0,
     err |-> "none", shown |-> <<>>]

\* a deck directory of pre-rendered art: without the card's file (os.Stat
\* of the directory or of the file says it does not exist), or with it
AnsiStates == {"nofile", "file"}

\* the text of a pre-rendered file of the deck
PreRendered(dir) == <<[cells |-> <<[glyph |-> dir, fg |-> <<>>, bg |-> <<>>, reset |-> FALSE]>>, nl |-> TRUE]>>

Init ==
    /\ ansi \in [{"ansi32", "ansi256"} -> AnsiStates]
    /\ images \in [DeckFiles -> ImageContents]
    /\ cacheDir \in {"absent", "present", "blocked", "readonly"}
    /\ cache = [k \in CacheFiles |-> NoFile]
    /\ proc = [p \in Procs |-> IdleProc]
    /\ shows = 0
    /\ edits = 0
    /\ deck = GoodDeck
    /\ config = ConfigFile("ok", "rider-waite-smith")
    /\ calc = NoCall

\* the command run on any configuration and deck; the deck has at most the
\* pre-rendered file of ansi32 and the source image of h750
RunInit ==
    /\ ansi \in {a \in [{"ansi32", "ansi256"} -> AnsiStates] :
                     a["ansi256"] = "nofile"}
    /\ images \in {i \in [DeckFiles -> ImageContents] :
                     i[buildCardPath("h300", ".jpg")] = NoImage}
    /\ cacheDir \in {"absent", "present", "blocked", "readonly"}
    /\ cache = [k \in CacheFiles |-> NoFile]
    /\ proc = [p \in Procs |-> IdleProc]
    /\ shows = 0
    /\ edits = 0
    /\ deck \in DeckStates
    /\ config = ConfigFile("ok", "rider-waite-smith")
    /\ calc = NoCall

----------------------------------------------------------------------------
(* One invocation of `show`, step by step *)

Finished(p) == proc[p].pc = "done"
Active(p) == proc[p].pc \notin {"idle", "done"}

\* the command returns err: main prints it and exits
Fail(p, err) == [proc[p] EXCEPT !.pc = "done", !.err = err]

\* a new invocation begins: RunE resolves the deck path, loads the deck and
\* gets the card
Begin(p, deckFlag, cardID) ==
    /\ ~Active(p)
    /\ shows < MaxShows
    /\ shows' = shows + 1
    /\ proc' = [proc EXCEPT ![p] =
         [IdleProc EXCEPT !.n = shows + 1, !.deckFlag = deckFlag,
                          !.cardID = cardID,
                          !.pc = IF RunError(deck, deckFlag, cardID) = "none"
                                 THEN "findAnsiFile" ELSE "done",
                          !.err = RunError(deck, deckFlag, cardID)]]
    /\ UNCHANGED <<ansi, images, cacheDir, cache, edits, deck, config, calc>>

\* `show` run as the program is meant to be run: one invocation at a time
Start(p) ==
    /\ \A q \in Procs : ~Active(q)
    /\ Begin(p, "", TheCard)

\* `show` run with any deck flag and card ID, one invocation at a time
RunStart(p) ==
    /\ \A q \in Procs : ~Active(q)
    /\ \E deckFlag \in DeckFlags, cardID \in CardIDs : Begin(p, deckFlag, cardID)

\* `show` started while another invocation may still be running
StartConcurrent(p) == Begin(p, "", TheCard)

\* the choice as it would be with the two directories tried in the other order
PreRenderedPath256First(a) ==
    IF a["ansi256"] = "file" THEN Ansi256Path
    ELSE IF a["ansi32"] = "file" THEN Ansi32Path
    ELSE NoPath

\* the pre-rendered art file findAnsiFile returns, ansi32 before ansi256;
\* NoPath when there is none (ansiFound = false)
PreRenderedPath(a) ==
    IF a["ansi32"] = "file" THEN Ansi32Path
    ELSE IF a["ansi256"] = "file" THEN Ansi256Path
    ELSE NoPath

\* findAnsiFile up to the choice of the source image
FindArt(p) ==
    /\ proc[p].pc = "findAnsiFile"
    /\ proc' = [proc EXCEPT ![p] =
         IF PreRenderedPath(ansi) # NoPath
         THEN [@ EXCEPT !.ansiPath = PreRenderedPath(ansi),
                        !.branch = "prerendered", !.pc = "loadAnsiArt"]
         ELSE IF findCardImage(images) = NoPath
         THEN Fail(p, "no ANSI art or convertible images found")
         ELSE [@ EXCEPT !.imagePath = findCardImage(images), !.pc = "cache"]]
    /\ UNCHANGED <<ansi, images, cacheDir, cache, shows, edits, deck, config, calc>>

\* os.MkdirAll(cacheDir): whether it returns nil, and the directory after it
MkdirAllOk(dir) == dir # "blocked"
MkdirAll(dir) == IF dir = "absent" THEN "present" ELSE dir

\* the test as it would be if the cached version were never used
NeverCached(files, cachePath) == FALSE

\* the test for a cached version: os.Stat(cachePath) finds a file
Cached(files, cachePath) == files[cachePath].exists

\* findAnsiFile: the cache directory and the look for a cached version
CacheLookup(p) ==
    /\ proc[p].pc = "cache"
    /\ LET cachePath == cacheFilename(proc[p].imagePath)
       IN  IF ~MkdirAllOk(cacheDir)
           THEN /\ proc' = [proc EXCEPT ![p] =
                        Fail(p, "failed to create ANSI cache directory")]
                /\ UNCHANGED cacheDir
           ELSE /\ cacheDir' = MkdirAll(cacheDir)
                /\ proc' = [proc EXCEPT ![p] =
                     IF Cached(cache, cachePath)
                     THEN [@ EXCEPT !.cachePath = cachePath, !.ansiPath = cachePath,
                                    !.branch = "hit", !.pc = "loadAnsiArt"]
                     ELSE [@ EXCEPT !.cachePath = cachePath,
                                    !.branch = "miss", !.pc = "generateAnsiArt"]]
    /\ UNCHANGED <<ansi, images, cache, shows, edits, deck, config, calc>>

\* the error as it would be if the error of image.Decode were dropped
DecodeErrorDropped(content) ==
    IF content.kind = "absent" THEN "failed to open image" ELSE "none"

\* os.Open and image.Decode of the source image: the error, "none" for nil
DecodeError(content) ==
    IF content.kind = "absent" THEN "failed to open image"
    ELSE IF content.kind = "corrupt" THEN "failed to decode image"
    ELSE "none"

\* generateAnsiArt as it would be if it created the output file before it
\* opened the image
GenerateAnsiArtCreatesFirst(p) ==
    /\ proc[p].pc = "generateAnsiArt"
    /\ LET content == images[proc[p].imagePath]
       IN  IF cacheDir = "readonly"
           THEN /\ proc' = [proc EXCEPT ![p] =
                        Fail(p, "failed to write ANSI art to file")]
                /\ UNCHANGED cache
           ELSE IF DecodeError(content) # "none"
           THEN /\ proc' = [proc EXCEPT ![p] = Fail(p, DecodeError(content))]
                /\ cache' = [cache EXCEPT ![proc[p].cachePath] = File(<<>>)]
           ELSE /\ proc' = [proc EXCEPT ![p] =
                        [@ EXCEPT !.ansiArt = RenderedArt(content), !.off = 0,
                                  !.pc = "write"]]
                /\ cache' = [cache EXCEPT ![proc[p].cachePath] = File(<<>>)]
    /\ UNCHANGED <<ansi, images, cacheDir, shows, edits, deck, config, calc>>

\* generateAnsiArt up to the opening of the output file: open and decode
\* the image, render it, create or truncate the cache file
GenerateAnsiArt(p) ==
    /\ proc[p].pc = "generateAnsiArt"
    /\ LET content == images[proc[p].imagePath]
       IN  IF DecodeError(content) # "none"
           THEN /\ proc' = [proc EXCEPT ![p] = Fail(p, DecodeError(content))]
                /\ UNCHANGED cache
           ELSE IF cacheDir = "readonly"
           THEN /\ proc' = [proc EXCEPT ![p] =
                        [Fail(p, "failed to write ANSI art to file")
                            EXCEPT !.ansiArt = RenderedArt(content)]]
                /\ UNCHANGED cache
           ELSE /\ proc' = [proc EXCEPT ![p] =
                        [@ EXCEPT !.ansiArt = RenderedArt(content), !.off = 0,
                                  !.pc = "write"]]
                /\ cache' = [cache EXCEPT ![proc[p].cachePath] = File(<<>>)]
    /\ UNCHANGED <<ansi, images, cacheDir, shows, edits, deck, config, calc>>

\* os.WriteFile, the writing: one more piece of the art reaches the file, or
\* the write fails (ok = FALSE) and leaves the file as it is
WriteFile(p, ok) ==
    /\ proc[p].pc = "write"
    /\ LET me == proc[p]
           done == me.off + 1 = Len(me.ansiArt)
       IN  IF ~ok
           THEN /\ proc' = [proc EXCEPT ![p] =
                        Fail(p, "failed to write ANSI art to file")]
                /\ UNCHANGED cache
           ELSE /\ cache' = [cache EXCEPT ![me.cachePath] =
                        File(WriteAt(@.data, me.off + 1, me.ansiArt[me.off + 1]))]
                /\ proc' = [proc EXCEPT ![p] =
                        IF done
                        THEN [@ EXCEPT !.off = @ + 1, !.ansiPath = me.cachePath,
                                       !.pc = "loadAnsiArt"]
                        ELSE [@ EXCEPT !.off = @ + 1]]
    /\ UNCHANGED <<ansi, images, cacheDir, shows, edits, deck, config, calc>>

\* whether os.ReadFile finds the file at path
Readable(path, files) ==
    IF path = Ansi32Path THEN ansi["ansi32"] = "file"
    ELSE IF path = Ansi256Path THEN ansi["ansi256"] = "file"
    ELSE files[path].exists

\* loadAnsiArt as it would be if it trimmed the text it read (as
\* strings.TrimSpace would): the last line feed is lost
loadAnsiArtTrimmed(path, files) ==
    LET data == IF path = Ansi32Path THEN PreRendered("ansi32")
                ELSE IF path = Ansi256Path THEN PreRendered("ansi256")
                ELSE files[path].data
    IN  IF data = <<>> THEN data ELSE [data EXCEPT ![Len(data)].nl = FALSE]

\* loadAnsiArt: the content of the file at path
loadAnsiArt(path, files) ==
    IF path = Ansi32Path THEN PreRendered("ansi32")
    ELSE IF path = Ansi256Path THEN PreRendered("ansi256")
    ELSE files[path].data

\* loadAnsiArt and displayCard: the art is read and printed
LoadAndDisplay(p) ==
    /\ proc[p].pc = "loadAnsiArt"
    /\ proc' = [proc EXCEPT ![p] =
            IF ~Readable(proc[p].ansiPath, cache)
            THEN Fail(p, "error loading ANSI art")
            ELSE [@ EXCEPT !.shown = loadAnsiArt(proc[p].ansiPath, cache),
                           !.pc = "done"]]
    /\ UNCHANGED <<ansi, images, cacheDir, cache, shows, edits, deck, config, calc>>

----------------------------------------------------------------------------
(* The deck is edited between or during invocations *)

DeleteImage(f) ==
    /\ edits < MaxEdits
    /\ images[f].kind # "absent"
    /\ images' = [images EXCEPT ![f] = NoImage]
    /\ edits' = edits + 1
    /\ UNCHANGED <<ansi, cacheDir, cache, proc, shows, deck, config, calc>>

ReplaceImage(f, content) ==
    /\ edits < MaxEdits
    /\ content.kind # "absent"
    /\ content # images[f]
    /\ images' = [images EXCEPT ![f] = content]
    /\ edits' = edits + 1
    /\ UNCHANGED <<ansi, cacheDir, cache, proc, shows, deck, config, calc>>

----------------------------------------------------------------------------
(* Specifications *)

Step(p) ==
    \/ FindArt(p)
    \/ CacheLookup(p)
    \/ GenerateAnsiArt(p)
    \/ \E ok \in BOOLEAN : WriteFile(p, ok)
    \/ LoadAndDisplay(p)

Edit ==
    \/ \E f \in DeckFiles : DeleteImage(f)
    \/ \E f \in DeckFiles, content \in ImageContents : ReplaceImage(f, content)

\* invocations run one after the other
Next ==
    \/ \E p \in Procs : Start(p)
    \/ \E p \in Procs : Step(p)
    \/ Edit

Spec == Init /\ [][Next]_vars

\* invocations of separate processes overlap
RaceNext ==
    \/ \E p \in Procs : StartConcurrent(p)
    \/ \E p \in Procs : Step(p)
    \/ Edit

RaceSpec == Init /\ [][RaceNext]_vars

\* the command on any configuration, deck and arguments, the deck unedited
RunNext ==
    \/ \E p \in Procs : RunStart(p)
    \/ \E p \in Procs : Step(p)

RunSpec == RunInit /\ [][RunNext]_vars

----------------------------------------------------------------------------
(* The functions of show.go evaluated on their own: the arguments are drawn *)
(* in the initial state, the one step applies the function to them          *)

\* no command runs
Quiet ==
    /\ ansi = [d \in {"ansi32", "ansi256"} |-> "nofile"]
    /\ images = [f \in DeckFiles |-> NoImage]
    /\ cacheDir = "absent"
    /\ cache = [k \in CacheFiles |-> NoFile]
    /\ proc = [p \in Procs |-> IdleProc]
    /\ shows = 0
    /\ edits = 0
    /\ deck = GoodDeck
    /\ config = ConfigFile("ok", "rider-waite-smith")

\* the function fn about to be applied to args
Pending(fn, args) == [fn |-> fn, args |-> args, done |-> FALSE, out |-> <<>>]

\* the function is applied: calc holds what it returned
Return(out) ==
    /\ calc' = [calc EXCEPT !.done = TRUE, !.out = out]
    /\ UNCHANGED <<ansi, images, cacheDir, cache, proc, shows, edits, deck, config>>

\* colours of the pixels of the pictures rendered on their own: transparent,
\* and three opaque ones
Palette ==
    {RGBA(0, 0, 0, 0), RGBA(255, 255, 255, 255), RGBA(255, 128, 0, 255),
     RGBA(0, 0, 128, 255)}

\* the decoded pictures: w x h pixels, of two colours in a chequer pattern
SourcePictures ==
    {Decoded([y \in 1..h |-> [x \in 1..w |->
                 IF (x + y) % 2 = 0 THEN c1 ELSE c2]]) :
        w \in 1..MaxSide, h \in 1..MaxSide, c1 \in Palette, c2 \in Palette}

\* the values colorful.MakeColor and colorfulToColor give of these colours
ColorfulColors == {MakeColor(c).col : c \in Palette}
CellColors == {colorfulToColor(c) : c \in ColorfulColors}

RenderInit ==
    /\ Quiet
    /\ calc \in
         {Pending("imageToAnsi", a) :
             a \in [img : SourcePictures, width : 1..MaxGrid,
                    height : 1..MaxGrid, use256Colors : BOOLEAN]}
         \cup {Pending("getColorAt", a) :
             a \in [img : SourcePictures, x : (-1)..MaxSide, y : (-1)..MaxSide]}
         \cup {Pending("averageColor", a) :
             a \in [c1 : ColorfulColors, c2 : ColorfulColors]}
         \cup {Pending("ansiColorString", a) :
             a \in [fg : CellColors, bg : CellColors, use256Colors : BOOLEAN]}

CallImageToAnsi ==
    /\ calc.fn = "imageToAnsi" /\ ~calc.done
    /\ Return(imageToAnsi(calc.args.img, calc.args.width, calc.args.height,
                          calc.args.use256Colors))

CallGetColorAt ==
    /\ calc.fn = "getColorAt" /\ ~calc.done
    /\ Return(getColorAt(calc.args.img, calc.args.x, calc.args.y))

CallAverageColor ==
    /\ calc.fn = "averageColor" /\ ~calc.done
    /\ Return(averageColor(calc.args.c1, calc.args.c2))

CallAnsiColorString ==
    /\ calc.fn = "ansiColorString" /\ ~calc.done
    /\ Return(CellString(ansiColorString("upper half block", calc.args.fg,
                                         calc.args.bg, calc.args.use256Colors)))

RenderNext ==
    \/ CallImageToAnsi
    \/ CallGetColorAt
    \/ CallAverageColor
    \/ CallAnsiColorString

RenderSpec == RenderInit /\ [][RenderNext]_vars

\* every string of at most n characters of the alphabet
Strings(alphabet, n) == UNION {[1..k -> alphabet] : k \in 0..n}

\* the line of the art that holds the row's cells (the text between two line
\* feeds, as strings.Split gives it to displayCard)
RECURSIVE LineString(_)
LineString(cells) ==
    IF cells = <<>> THEN <<>>
    ELSE CellString(Head(cells)) \o LineString(Tail(cells))

\* stripAnsi as it would be if it dropped the ESC characters only
stripAnsiIntroducerOnly(s) == SelectSeq(s, LAMBDA c : c # ESC)

\* the loop of stripAnsi from the i-th character on
RECURSIVE stripAnsiFrom(_, _, _)
stripAnsiFrom(s, i, inEscape) ==
    IF i > Len(s) THEN <<>>
    ELSE IF inEscape THEN stripAnsiFrom(s, i + 1, s[i] # "m")
    ELSE IF s[i] = ESC THEN stripAnsiFrom(s, i + 1, TRUE)
    ELSE <<s[i]>> \o stripAnsiFrom(s, i + 1, FALSE)

\* stripAnsi: the string without its escape sequences
stripAnsi(s) == stripAnsiFrom(s, 1, FALSE)

\* len of a string: its length in bytes, every character in UTF-8 (the
\* upper half block U+2580 takes three bytes, the others of the model one)
RECURSIVE len(_)
len(s) ==
    IF s = <<>> THEN 0
    ELSE (IF Head(s) = "upper half block" THEN 3 ELSE 1) + len(Tail(s))

\* displayCard: the visible width it measures of a line of the art
visibleWidth(line) == len(stripAnsi(line))

\* the characters of the strings given to stripAnsi on its own
StripAlphabet == {ESC, "[", "m", "a"}

\* the rows of cells of the art lines measured on their own
ArtLines ==
    {imageToAnsi(img, width, 1, mode)[1].cells :
        img \in SourcePictures, width \in 1..ArtCols, mode \in BOOLEAN}

StripInit ==
    /\ Quiet
    /\ calc \in
         {Pending("stripAnsi", [s |-> str]) : str \in Strings(StripAlphabet, MaxStrLen)}
         \cup {Pending("visibleWidth", [cells |-> c]) : c \in ArtLines}

CallStripAnsi ==
    /\ calc.fn = "stripAnsi" /\ ~calc.done
    /\ Return(stripAnsi(calc.args.s))

\* displayCard measures one line of the art
CallVisibleWidth ==
    /\ calc.fn = "visibleWidth" /\ ~calc.done
    /\ Return([stripped |-> stripAnsi(LineString(calc.args.cells)),
               visibleWidth |-> visibleWidth(LineString(calc.args.cells))])

StripNext ==
    \/ CallStripAnsi
    \/ CallVisibleWidth

StripSpec == StripInit /\ [][StripNext]_vars

\* strings.Fields of the characters of s from the i-th on, word being the
\* word read so far: the words between the runs of white space
RECURSIVE FieldsFrom(_, _, _)
FieldsFrom(s, i, word) ==
    IF i > Len(s) THEN (IF word = <<>> THEN <<>> ELSE <<word>>)
    ELSE IF s[i] \in {" ", "\t", "\n"}
    THEN (IF word = <<>> THEN <<>> ELSE <<word>>) \o FieldsFrom(s, i + 1, <<>>)
    ELSE FieldsFrom(s, i + 1, Append(word, s[i]))

Fields(s) == FieldsFrom(s, 1, <<>>)

\* the loop of wrapText over the words from the i-th on
RECURSIVE wrapWords(_, _, _, _, _)
wrapWords(words, i, result, currentLine, width) ==
    IF i > Len(words)
    THEN (IF currentLine # <<>> THEN Append(result, currentLine) ELSE result)
    ELSE IF len(currentLine) = 0
    THEN wrapWords(words, i + 1, result, words[i], width)
    ELSE IF len(currentLine) + 1 + len(words[i]) <= width
    THEN wrapWords(words, i + 1, result, currentLine \o <<" ">> \o words[i], width)
    ELSE wrapWords(words, i + 1, Append(result, currentLine), words[i], width)

\* wrapText as it would be without the replacement of a small width
wrapTextAnyWidth(text, width) ==
    IF Len(Fields(text)) = 0 THEN <<<<>>>>
    ELSE wrapWords(Fields(text), 1, <<>>, <<>>, width)

\* wrapText as it would be if a word that does not fit were dropped with
\* the line it ends
wrapTextFirstLine(text, width) ==
    IF Len(Fields(text)) = 0 THEN <<<<>>>>
    ELSE <<wrapWords(Fields(text), 1, <<>>, <<>>,
                     IF width < 10 THEN 40 ELSE width)[1]>>

\* wrapText as it would be if the line being filled when the words end
\* were not added to the result
wrapTextNoLastLine(text, width) ==
    IF Len(Fields(text)) = 0 THEN <<<<>>>>
    ELSE LET lines == wrapWords(Fields(text), 1, <<>>, <<>>,
                                IF width < 10 THEN 40 ELSE width)
         IN  SubSeq(lines, 1, Len(lines) - 1)

\* wrapText: the lines of the text; a width below 10 is replaced by 40
wrapText(text, width) ==
    IF Len(Fields(text)) = 0 THEN <<<<>>>>
    ELSE wrapWords(Fields(text), 1, <<>>, <<>>, IF width < 10 THEN 40 ELSE width)

\* the text of the example: "a bb ccc dddd"
ExampleText ==
    <<"a", " ", "b", "b", " ", "c", "c", "c", " ", "d", "d", "d", "d">>

\* the widths given to wrapText: the example's 4, and the widths about 10,
\* below which wrapText replaces the width
WrapWidths == {4} \cup (8..MaxWidth)

WrapInit ==
    /\ Quiet
    /\ calc \in
         {Pending("wrapText", a) :
             a \in [text : Strings({"a", " "}, MaxTextLen) \cup {ExampleText},
                    width : WrapWidths]}

CallWrapText ==
    /\ calc.fn = "wrapText" /\ ~calc.done
    /\ Return(wrapText(calc.args.text, calc.args.width))

WrapNext == CallWrapText

WrapSpec == WrapInit /\ [][WrapNext]_vars

\* strings.Split(ansiArt, "\n") from the r-th row of the art on, line being
\* the text read since the last line feed: the text after the last line feed
\* is a line too, an empty one when the art ends with a line feed
RECURSIVE SplitFrom(_, _, _)
SplitFrom(ansiArt, r, line) ==
    IF r > Len(ansiArt) THEN <<line>>
    ELSE IF ansiArt[r].nl
    THEN <<line \o LineString(ansiArt[r].cells)>> \o SplitFrom(ansiArt, r + 1, <<>>)
    ELSE SplitFrom(ansiArt, r + 1, line \o LineString(ansiArt[r].cells))

\* displayCard: the lines of the art
ansiLines(ansiArt) == SplitFrom(ansiArt, 1, <<>>)

\* the width displayCard would reserve if it measured the first line only
maxAnsiWidthFirstLine(lines) == visibleWidth(lines[1])

\* displayCard: the largest width it measures over the lines of the art
RECURSIVE maxAnsiWidthFrom(_, _, _)
maxAnsiWidthFrom(lines, i, widest) ==
    IF i > Len(lines) THEN widest
    ELSE maxAnsiWidthFrom(lines, i + 1,
                          IF visibleWidth(lines[i]) > widest
                          THEN visibleWidth(lines[i]) ELSE widest)

maxAnsiWidth(lines) == maxAnsiWidthFrom(lines, 1, 0)

\* what term.GetSize gave: an error, or the number of columns
GetSize(err, width) == [err |-> err, width |-> width]

\* displayCard: the terminal width it works with
terminalWidth(size) == IF size.err \/ size.width <= 0 THEN 80 ELSE size.width

\* displayCard: the width left to the description
infoWidth(width, infoStartCol) ==
    IF width - infoStartCol - 2 < 20 THEN 20 ELSE width - infoStartCol - 2

\* displayCard: the info lines of a card; a heading line is written as the
\* one-element string of its label, a description line as its characters
infoLines(c, descWidth) ==
    <<<<"Card: ">>, <<"Deck: ">>, <<"ID:   ">>>>
    \o (IF c.Type = "major_arcana" THEN <<<<"Type: ">>>>
        ELSE <<<<"Type: ">>, <<"Suit: ">>, <<"Rank: ">>>>)
    \o (IF c.AltText # <<>>
        THEN <<<<>>, <<"Description:">>>> \o wrapText(c.AltText, descWidth)
        ELSE <<>>)

\* displayCard, the printing loop: per row the art line, the blanks after it
\* and the info line
printedRows(lines, info, infoStartCol) ==
    LET maxLines == IF Len(lines) > Len(info) THEN Len(lines) ELSE Len(info)
    IN  [i \in 1..maxLines |->
            [hasArt |-> i <= Len(lines),
             art |-> IF i <= Len(lines) THEN lines[i] ELSE <<>>,
             pad |-> IF i <= Len(lines)
                     THEN infoStartCol - visibleWidth(lines[i])
                     ELSE infoStartCol,
             hasInfo |-> i <= Len(info),
             info |-> IF i <= Len(info) THEN info[i] ELSE <<>>]]

\* displayCard: what it measures, and the rows it prints
displayCard(ansiArt, size, c) ==
    LET lines == ansiLines(ansiArt)
        width == terminalWidth(size)
        spacing == 4
        infoStartCol == maxAnsiWidth(lines) + spacing
        descWidth == infoWidth(width, infoStartCol)
        info == infoLines(c, descWidth)
    IN  [ansiLines |-> lines, maxAnsiWidth |-> maxAnsiWidth(lines),
         width |-> width, infoStartCol |-> infoStartCol,
         infoWidth |-> descWidth, infoLines |-> info,
         rows |-> printedRows(lines, info, infoStartCol)]

\* a pre-rendered art of plain characters: row r holds widths[r] of them
PlainArt(widths, terminated) ==
    [r \in 1..Len(widths) |->
        [cells |-> [i \in 1..widths[r] |->
                      [glyph |-> "a", fg |-> <<>>, bg |-> <<>>, reset |-> FALSE]],
         nl |-> r < Len(widths) \/ terminated]]

\* the arts given to displayCard on its own: renderings of every height up
\* to MaxArtLines, and pre-rendered arts whose rows differ in width
LayoutArts ==
    {imageToAnsi(Picture(c), ArtCols, h, mode) :
        c \in Pictures, h \in 1..MaxArtLines, mode \in BOOLEAN}
    \cup {PlainArt(w, t) :
            w \in UNION {[1..k -> 0..ArtCols] : k \in 0..MaxArtLines},
            t \in BOOLEAN}

\* a text of n words of five letters
RECURSIVE Sentence(_)
Sentence(n) ==
    IF n = 0 THEN <<>>
    ELSE (IF n = 1 THEN <<>> ELSE Sentence(n - 1) \o <<" ">>)
         \o <<"a", "a", "a", "a", "a">>

\* the cards given to displayCard on its own
LayoutCards ==
    [Type : {"major_arcana", "minor_arcana"}, AltText : {<<>>, Sentence(4)}]

\* the outcomes of term.GetSize: an error, no width, and widths about those
\* at which the info width reaches its floor
TerminalSizes ==
    {GetSize(TRUE, 0)}
    \cup {GetSize(FALSE, w) : w \in {0, 5} \cup ((MaxTermWidth - 4)..MaxTermWidth)}

LayoutInit ==
    /\ Quiet
    /\ calc \in
         {Pending("displayCard", a) :
             a \in [ansiArt : LayoutArts, size : TerminalSizes, c : LayoutCards]}

CallDisplayCard ==
    /\ calc.fn = "displayCard" /\ ~calc.done
    /\ Return(displayCard(calc.args.ansiArt, calc.args.size, calc.args.c))

LayoutNext == CallDisplayCard

LayoutSpec == LayoutInit /\ [][LayoutNext]_vars

\* the deck directories given to LoadDeck on its own: deck.toml present,
\* missing or not parseable; the names directory absent ("nodir"), with
\* en.toml ("en"), with an en.toml that does not parse ("bad"), and without
\* en.toml: not listable ("unreadable"), empty ("empty"), with another
\* language file ("other"), with entries none of which is a .toml file
\* ("notoml")
DeckDirs ==
    [config : {"ok"}, found : {TRUE}, toml : {"ok", "missing", "bad"},
     names : {"nodir", "en", "bad", "unreadable", "empty", "other", "notoml"}]

\* the parts of the card IDs given to GetCard on its own ("" is the part
\* between two dots that follow each other)
IdParts ==
    {"major_arcana", "minor_arcana", "00", "21", "22", "wands", "ace", ""}

\* splitCardID of the card IDs of at most MaxParts parts
CardIDParts == UNION {[1..k -> IdParts] : k \in 1..MaxParts}

DeckInit ==
    /\ Quiet
    /\ calc \in
         {Pending("LoadDeck", [d |-> d]) : d \in DeckDirs}
         \cup {Pending("GetCard", [d |-> d, parts |-> parts]) :
                 d \in {dir \in DeckDirs : dir.toml = "ok" /\ dir.names \in {"nodir", "en"}},
                 parts \in CardIDParts}

CallLoadDeck ==
    /\ calc.fn = "LoadDeck" /\ ~calc.done
    /\ Return(LoadDeck(calc.args.d))

\* GetCard on the deck LoadDeck gave
CallGetCard ==
    /\ calc.fn = "GetCard" /\ ~calc.done
    /\ Return(GetCard(LoadDeck(calc.args.d).deck, calc.args.parts))

DeckNext ==
    \/ CallLoadDeck
    \/ CallGetCard

DeckSpec == DeckInit /\ [][DeckNext]_vars

\* what a check of the validator adds to Results
Found(errors, warnings) == [Errors |-> errors, Warnings |-> warnings]

\* validateDeckToml: the error it returns ("none" for nil) and the entries it
\* records for the fields of a deck.toml that was decoded
validateDeckToml(dir) ==
    IF dir.toml = "missing"
    THEN [err |-> "deck.toml not found", found |-> Found(<<>>, <<>>)]
    ELSE IF dir.toml = "bad"
    THEN [err |-> "error parsing deck.toml", found |-> Found(<<>>, <<>>)]
    ELSE [err |-> "none",
          found |->
             Found(CASE dir.fields = "noId" -> <<"deck.id is required in deck.toml">>
                     [] dir.fields = "badSchema" -> <<"unsupported schema_version">>
                     [] dir.fields = "noBackImage" -> <<"card back image not found">>
                     [] OTHER -> <<>>,
                   <<>>)]

\* validateDirectoryStructure
validateDirectoryStructure(dir) ==
    Found(IF dir.images = "none" THEN <<"no image directories found">> ELSE <<>>,
          (IF dir.cardBacks = "absent" THEN <<"card_backs directory not found">>
           ELSE <<>>)
          \o (IF dir.names = "nodir" THEN <<"names directory not found">>
              ELSE <<>>))

\* validateCardBacks
validateCardBacks(dir) ==
    Found(CASE dir.cardBacks = "unreadable" -> <<"error reading card_backs directory">>
            [] dir.cardBacks = "empty" -> <<"no card backs found in card_backs directory">>
            [] OTHER -> <<>>,
          <<>>)

\* validateMajorArcana
validateMajorArcana(dir) ==
    Found(CASE dir.images \in {"none", "empty"} ->
                 <<"major_arcana directory not found in any image directory">>
            [] dir.images = "partial" -> <<"missing major arcana cards">>
            [] OTHER -> <<>>,
          <<>>)

\* validateMinorArcana
validateMinorArcana(dir) ==
    Found(CASE dir.images \in {"none", "empty"} ->
                 <<"minor_arcana directory not found in any image directory">>
            [] dir.images = "partial" -> <<"missing suit directory">>
            [] OTHER -> <<>>,
          <<>>)

\* validateNames
validateNames(dir) ==
    Found(CASE dir.names = "unreadable" -> <<"error reading names directory">>
            [] dir.names = "empty" -> <<"no language files found in names directory">>
            [] dir.names = "bad" ->
                 <<"error parsing language file",
                   "no valid language files found in names directory">>
            [] dir.names = "notoml" ->
                 <<"no valid language files found in names directory">>
            [] OTHER -> <<>>,
          IF dir.names = "noalt" THEN <<"no alt_text sections found">> ELSE <<>>)

\* validateAnsiArt
validateAnsiArt(dir) ==
    Found(<<>>,
          CASE dir.ansi = "none" -> <<"no ANSI art directories found">>
            [] dir.ansi = "partial" -> <<"missing ANSI art for major arcana cards">>
            [] OTHER -> <<>>)

\* the checks Validate runs after validateDeckToml, in its order
RECURSIVE RunChecks(_, _, _)
RunChecks(dir, i, results) ==
    LET found == CASE i = 1 -> validateDirectoryStructure(dir)
                   [] i = 2 -> validateCardBacks(dir)
                   [] i = 3 -> validateMajorArcana(dir)
                   [] i = 4 -> validateMinorArcana(dir)
                   [] i = 5 -> validateNames(dir)
                   [] i = 6 -> validateAnsiArt(dir)
    IN  IF i > 6 THEN results
        ELSE RunChecks(dir, i + 1,
                       [Errors |-> results.Errors \o found.Errors,
                        Warnings |-> results.Warnings \o found.Warnings,
                        checks |-> results.checks + 1])

\* Validator.Validate: the results, the error, and the number of checks run
Validate(dir) ==
    LET first == validateDeckToml(dir)
        results == [Errors |-> first.found.Errors,
                    Warnings |-> first.found.Warnings, checks |-> 1]
    IN  IF first.err # "none" THEN [Results |-> results, err |-> first.err]
        ELSE [Results |-> RunChecks(dir, 1, results), err |-> "none"]

\* the validate command as it would be if warnings failed it too
validateCmdStrict(dir) ==
    IF ~dir.exists
    THEN [err |-> "deck directory not found", validated |-> FALSE,
          printed |-> <<>>]
    ELSE LET v == Validate(dir)
         IN  IF v.err # "none"
             THEN [err |-> "validation error", validated |-> TRUE, printed |-> <<>>]
             ELSE IF Len(v.Results.Errors) + Len(v.Results.Warnings) = 0
             THEN [err |-> "none", validated |-> TRUE, printed |-> <<"is valid">>]
             ELSE [err |-> "validation failed", validated |-> TRUE,
                   printed |-> <<"has validation errors">> \o v.Results.Errors]

\* validateCmd.RunE: the error it returns ("none" for nil), whether Validate
\* was called, and the lines it prints after the heading
validateCmd(dir) ==
    IF ~dir.exists
    THEN [err |-> "deck directory not found", validated |-> FALSE,
          printed |-> <<>>]
    ELSE LET v == Validate(dir)
         IN  IF v.err # "none"
             THEN [err |-> "validation error", validated |-> TRUE, printed |-> <<>>]
             ELSE IF Len(v.Results.Errors) = 0
             THEN [err |-> "none", validated |-> TRUE,
                   printed |-> <<"is valid">> \o v.Results.Warnings]
             ELSE [err |-> "validation failed", validated |-> TRUE,
                   printed |-> <<"has validation errors">> \o v.Results.Errors]

\* the deck directories given to validate: what there is of deck.toml and
\* its fields, of the card backs, the images, the names and the ANSI art;
\* a directory that does not exist holds nothing
ValidatedDirs ==
    [exists : {TRUE}, toml : {"ok", "missing", "bad"},
     fields : {"complete", "noId", "badSchema", "noBackImage"},
     cardBacks : {"absent", "unreadable", "empty", "files"},
     images : {"none", "empty", "partial", "complete"},
     names : {"nodir", "unreadable", "empty", "bad", "notoml", "noalt", "en"},
     ansi : {"none", "partial", "complete"}]
    \cup {[exists |-> FALSE, toml |-> "missing", fields |-> "complete",
           cardBacks |-> "absent", images |-> "none", names |-> "nodir",
           ansi |-> "none"]}

ValidateInit ==
    /\ Quiet
    /\ calc \in {Pending("validate", [dir |-> dir]) : dir \in ValidatedDirs}

CallValidate ==
    /\ calc.fn = "validate" /\ ~calc.done
    /\ Return(validateCmd(calc.args.dir))

ValidateNext == CallValidate

ValidateSpec == ValidateInit /\ [][ValidateNext]_vars

\* the files os.Stat may find for the card: one per directory of the deck
\* and extension
CandidateFiles ==
    {buildCardPath(entries[i], extensions[j]) :
        i \in 1..Len(entries), j \in 1..Len(extensions)}

\* the decks given to findCardImage on its own hold at most MaxFiles of them
FindInit ==
    /\ Quiet
    /\ calc \in
         {Pending("findCardImage", [imgs |-> [f \in files |-> Picture(RGBA(0, 0, 0, 0))]]) :
             files \in {{pick[i] : i \in 1..Len(pick)} :
                           pick \in UNION {[1..k -> CandidateFiles] : k \in 0..MaxFiles}}}

CallFindCardImage ==
    /\ calc.fn = "findCardImage" /\ ~calc.done
    /\ Return(findCardImage(calc.args.imgs))

FindNext == CallFindCardImage

FindSpec == FindInit /\ [][FindNext]_vars

\* the outcomes of the writes of a command: all succeed, the file cannot be
\* created, or it is created and the encoding into it fails
IOs == {"ok", "createFails", "encodeFails"}

\* the commands on the config file start with the file absent, not
\* decodable, or holding a default deck
ConfigInit ==
    /\ ansi = [d \in {"ansi32", "ansi256"} |-> "nofile"]
    /\ images = [f \in DeckFiles |-> NoImage]
    /\ cacheDir = "absent"
    /\ cache = [k \in CacheFiles |-> NoFile]
    /\ proc = [p \in Procs |-> IdleProc]
    /\ shows = 0
    /\ edits = 0
    /\ deck = GoodDeck
    /\ config \in {ConfigFile("absent", ""), ConfigFile("bad", "")}
                  \cup {ConfigFile("ok", n) : n \in DeckNames}
    /\ calc = [fn |-> "none", args |-> <<>>, done |-> TRUE, out |-> "", calls |-> 0]

\* one run of `deck set-default <deckName>`
SetDefault ==
    \E deckName \in DeckNames, io \in IOs :
        /\ calc.calls < MaxCalls
        /\ config' = deckSetDefaultCmd(config, deckName, io).file
        /\ calc' = [fn |-> "set-default",
                    args |-> [deckName |-> deckName, io |-> io], done |-> TRUE,
                    out |-> deckSetDefaultCmd(config, deckName, io).printed,
                    calls |-> calc.calls + 1]
        /\ UNCHANGED <<ansi, images, cacheDir, cache, proc, shows, edits, deck>>

\* one call of config.GetDefaultDeck, as `show` and `deck list` make it
GetDefault ==
    \E io \in IOs :
        /\ calc.calls < MaxCalls
        /\ config' = GetDefaultDeck(config, io).file
        /\ calc' = [fn |-> "GetDefaultDeck",
                    args |-> [deckName |-> "", io |-> io], done |-> TRUE,
                    out |-> IF GetDefaultDeck(config, io).err # "none"
                            THEN GetDefaultDeck(config, io).err
                            ELSE GetDefaultDeck(config, io).DefaultDeck,
                    calls |-> calc.calls + 1]
        /\ UNCHANGED <<ansi, images, cacheDir, cache, proc, shows, edits, deck>>

ConfigNext ==
    \/ SetDefault
    \/ GetDefault

ConfigSpec == ConfigInit /\ [][ConfigNext]_vars

----------------------------------------------------------------------------
(* Properties *)

Succeeded(p) == Finished(p) /\ proc[p].err = "none"

\* the step of p out of position pc
Leaves(p, pc) == proc[p].pc = pc /\ proc'[p].pc # pc

\* C1: cache hit.  When findAnsiFile looks for the cached version of the
\* chosen image and a file exists at the cache path, it returns that path
\* (branch "hit"); an invocation on that branch never ran generateAnsiArt
\* (it holds no rendered text), none of its steps changes a cache file, and
\* what it shows is the content of the file at the cache path.
C1_HitReturnsCachePath ==
    \A p \in Procs :
        (Leaves(p, "cache") /\ cache[cacheFilename(proc[p].imagePath)].exists)
            => /\ proc'[p].branch = "hit"
               /\ proc'[p].pc = "loadAnsiArt"
               /\ proc'[p].ansiPath = cacheFilename(proc[p].imagePath)

C1_HitLeavesCacheAlone ==
    \A p \in Procs :
        (Active(p) /\ proc[p].branch = "hit") => cache' = cache

C1_HitShowsFile ==
    \A p \in Procs :
        proc[p].branch = "hit"
            => /\ proc[p].ansiArt = <<>>
               /\ proc[p].err = "none"
               /\ Finished(p) => proc[p].shown = cache[proc[p].ansiPath].data

C1_CacheHit ==
    /\ []C1_HitShowsFile
    /\ [][C1_HitReturnsCachePath /\ C1_HitLeavesCacheAlone]_vars

C1_Witness ==
    \E p \in Procs :
        /\ Succeeded(p)
        /\ proc[p].branch = "hit"
        /\ proc[p].shown \in CompleteArts

\* C2: cache miss.  An invocation that found no cached version, decoded the
\* image and returned from generateAnsiArt without error has rendered the
\* picture; the file at the cache path then holds exactly the rendered text,
\* findAnsiFile returns the cache path, and the rendered text is what the
\* invocation shows.
C2_CacheMiss ==
    \A p \in Procs :
        (/\ proc[p].branch = "miss"
         /\ proc[p].pc \in {"loadAnsiArt", "done"}
         /\ proc[p].err = "none")
            => /\ proc[p].ansiArt \in CompleteArts
               /\ proc[p].cachePath = cacheFilename(proc[p].imagePath)
               /\ proc[p].ansiPath = proc[p].cachePath
               /\ cache[proc[p].cachePath] = File(proc[p].ansiArt)
               /\ Finished(p) => proc[p].shown = proc[p].ansiArt

C2_Witness ==
    \E p \in Procs :
        /\ Succeeded(p)
        /\ proc[p].branch = "miss"
        /\ cache[proc[p].cachePath].exists

\* C3: round trip.  When an invocation that rendered the image (cold cache)
\* is directly followed by an invocation that resolves to the same image
\* (warm cache), and both succeed, both show the same text.
C3_RoundTrip ==
    \A p, q \in Procs :
        (/\ Succeeded(p) /\ proc[p].branch = "miss"
         /\ Succeeded(q) /\ proc[q].n = proc[p].n + 1
         /\ proc[q].imagePath = proc[p].imagePath)
            => proc[q].shown = proc[p].shown

C3_Witness ==
    \E p, q \in Procs :
        /\ Succeeded(p) /\ proc[p].branch = "miss"
        /\ Succeeded(q) /\ proc[q].n = proc[p].n + 1
        /\ proc[q].branch = "hit"
        /\ proc[q].imagePath = proc[p].imagePath
        /\ proc[q].shown \in CompleteArts
        /\ \/ images[proc[p].imagePath].kind # "picture"
           \/ RenderedArt(images[proc[p].imagePath]) # proc[q].shown

NoPreRendered == ansi["ansi32"] # "file" /\ ansi["ansi256"] # "file"

\* C4 (as claimed): when an earlier invocation showed the card's art from the
\* cache (it rendered and cached it, or read the cached version) and the
\* source image it resolved to has since been deleted, a later invocation
\* (no pre-rendered art) succeeds and shows the same cached text.
C4_CachedArtSurvivesDeletion ==
    \A p, q \in Procs :
        (/\ Succeeded(p) /\ proc[p].branch \in {"miss", "hit"}
         /\ Finished(q) /\ proc[p].n < proc[q].n
         /\ images[proc[p].imagePath].kind = "absent"
         /\ NoPreRendered)
            => /\ proc[q].err = "none"
               /\ proc[q].shown = proc[p].shown

CacheErrors ==
    {"failed to create ANSI cache directory", "failed to write ANSI art to file"}

\* C5 (as claimed): failure to cache is never fatal.  An invocation whose
\* source image is decodable (it rendered it, or the chosen file holds a
\* picture) does not end with the error of creating the cache directory or
\* of writing the cache file: it succeeds and shows the rendered art.
C5_CacheFailureNotFatal ==
    \A p \in Procs :
        (/\ Finished(p)
         /\ proc[p].imagePath # NoPath
         /\ proc[p].branch # "hit"
         /\ \/ proc[p].ansiArt # <<>>
            \/ images[proc[p].imagePath].kind = "picture")
            => /\ proc[p].err \notin CacheErrors
               /\ proc[p].err = "none" => proc[p].shown \in CompleteArts

DecodeErrors == {"failed to open image", "failed to decode image"}

\* C6 (as claimed): findAnsiFile never returns an art path, and so the
\* invocation never goes on to display, while the chosen source image cannot
\* be opened or decoded.
C6_UndecodableAlwaysFails ==
    [][\A p \in Procs :
          (Leaves(p, "cache") /\ images[proc[p].imagePath].kind # "picture")
              => proc'[p].pc # "loadAnsiArt"]_vars

\* C6 (amended): when generateAnsiArt runs (no pre-rendered art, no cached
\* version) and the chosen source image cannot be opened or decoded, the
\* invocation ends at once with the error of the open or of the decode, no
\* cache file is created or changed, and nothing is displayed; an invocation
\* that ended with an error has displayed nothing and takes no further step.
C6_GenerateFails ==
    \A p \in Procs :
        (Leaves(p, "generateAnsiArt")
         /\ images[proc[p].imagePath].kind # "picture")
            => /\ proc'[p].pc = "done"
               /\ proc'[p].err \in DecodeErrors
               /\ proc'[p].err = "failed to open image"
                     <=> images[proc[p].imagePath].kind = "absent"
               /\ cache' = cache

C6_FailureIsFinal ==
    \A p \in Procs :
        (Finished(p) /\ proc[p].err # "none" /\ proc'[p].n = proc[p].n)
            => proc'[p] = proc[p]

C6_FailedShowsNothing ==
    \A p \in Procs :
        /\ proc[p].err # "none" => Finished(p) /\ proc[p].shown = <<>>
        /\ proc[p].err \in DecodeErrors => proc[p].branch = "miss"

C6_DecodeFailureOnMiss ==
    /\ []C6_FailedShowsNothing
    /\ [][C6_GenerateFails /\ C6_FailureIsFinal]_vars

C6_Witness ==
    \E p \in Procs :
        /\ Finished(p)
        /\ proc[p].err = "failed to decode image"
        /\ proc[p].shown = <<>>
        /\ ~cache[proc[p].cachePath].exists

\* C7 (as claimed): whatever the interleaving of invocations, every cache
\* file an invocation treated as a hit and showed holds a complete rendering.
C7_NoPartialRead ==
    \A p \in Procs :
        (Succeeded(p) /\ proc[p].branch = "hit")
            => proc[p].shown \in CompleteArts

\* C8: when two overlapping invocations both missed on the same cache file,
\* both rendered the same picture and both wrote the file without error,
\* then once both have finished the file holds exactly that rendering.
C8_LastWriterWins ==
    \A p, q \in Procs :
        (/\ p # q
         /\ Succeeded(p) /\ proc[p].branch = "miss"
         /\ Succeeded(q) /\ proc[q].branch = "miss"
         /\ proc[p].cachePath = proc[q].cachePath
         /\ proc[p].ansiArt = proc[q].ansiArt)
            => /\ cache[proc[p].cachePath] = File(proc[p].ansiArt)
               /\ proc[p].ansiArt \in CompleteArts

C8_Witness ==
    \E p, q \in Procs :
        /\ p # q
        /\ Succeeded(p) /\ proc[p].branch = "miss"
        /\ Succeeded(q) /\ proc[q].branch = "miss"
        /\ proc[p].cachePath = proc[q].cachePath
        /\ proc[p].ansiArt = proc[q].ansiArt
        /\ proc[p].shown # proc[p].ansiArt

\* C9: a cache file is never invalidated.  Once a cache file exists and the
\* invocation that created it is no longer writing it, no step rewrites or
\* deletes it, whatever becomes of the source image; and every later
\* invocation that resolves to the same image path takes the cached version
\* and, after a successful first render, shows the same text.
C9_NeverRewritten ==
    \A k \in CacheFiles :
        (/\ cache[k].exists
         /\ ~\E p \in Procs : proc[p].pc = "write" /\ proc[p].cachePath = k)
            => cache'[k] = cache[k]

C9_LaterReadsIt ==
    \A p, q \in Procs :
        (/\ Succeeded(p) /\ proc[p].branch = "miss"
         /\ proc[p].n < proc[q].n
         /\ proc[q].cachePath = proc[p].cachePath)
            => /\ proc[q].branch = "hit"
               /\ proc[q].err = "none"
               /\ Finished(q) => proc[q].shown = proc[p].shown

C9_NeverInvalidated ==
    /\ []C9_LaterReadsIt
    /\ [][C9_NeverRewritten]_vars

C9_Witness ==
    \E p, q \in Procs :
        /\ Succeeded(p) /\ proc[p].branch = "miss"
        /\ Succeeded(q) /\ proc[p].n < proc[q].n
        /\ proc[q].cachePath = proc[p].cachePath
        /\ images[proc[q].imagePath].kind = "corrupt"

\* C10: pre-rendered art comes first.  When the card's .ansi file exists in
\* ansi32, or else in ansi256, findAnsiFile returns that file (ansi32 before
\* ansi256): the invocation chooses no source image, renders nothing, derives
\* no cache path, none of its steps changes the cache directory or a cache
\* file, and it shows the text of the pre-rendered file.
C10_PreRenderedChosen ==
    \A p \in Procs :
        (proc[p].pc \notin {"idle", "findAnsiFile"} /\ ~NoPreRendered)
            => /\ proc[p].branch = "prerendered"
               /\ proc[p].ansiPath =
                     buildCardPath(IF ansi["ansi32"] = "file" THEN "ansi32"
                                   ELSE "ansi256", ".ansi")
               /\ proc[p].imagePath = NoPath
               /\ proc[p].cachePath = NoPath
               /\ proc[p].ansiArt = <<>>
               /\ proc[p].err = "none"
               /\ Finished(p) =>
                     proc[p].shown = PreRendered(IF ansi["ansi32"] = "file"
                                                 THEN "ansi32" ELSE "ansi256")

C10_CacheUntouched ==
    \A p \in Procs :
        (Active(p) /\ ~NoPreRendered) => cacheDir' = cacheDir /\ cache' = cache

C10_PreRenderedFirst ==
    /\ []C10_PreRenderedChosen
    /\ [][C10_CacheUntouched]_vars

C10_Witness ==
    \E p \in Procs :
        /\ Succeeded(p)
        /\ proc[p].branch = "prerendered"
        /\ ansi["ansi32"] = "file" /\ ansi["ansi256"] = "file"
        /\ findCardImage(images) # NoPath
        /\ cacheDir = "absent"

\* C11: nothing to show.  When findAnsiFile runs for a card that has neither
\* a pre-rendered .ansi file nor any source image, the invocation ends at
\* once with the error "no ANSI art or convertible images found" and shows
\* nothing; that step leaves the cache directory and the cache files as they
\* were, and the invocation never reached the creation of the cache
\* directory (it derived no cache path and rendered nothing).
NoSourceImage == \A f \in DeckFiles : images[f].kind = "absent"

C11_FailsAtOnce ==
    \A p \in Procs :
        (Leaves(p, "findAnsiFile") /\ NoPreRendered /\ NoSourceImage)
            => /\ proc'[p].pc = "done"
               /\ proc'[p].err = "no ANSI art or convertible images found"
               /\ proc'[p].shown = <<>>
               /\ cacheDir' = cacheDir
               /\ cache' = cache

C11_NeverReachedCache ==
    \A p \in Procs :
        proc[p].err = "no ANSI art or convertible images found"
            => /\ Finished(p)
               /\ proc[p].branch = "none"
               /\ proc[p].imagePath = NoPath
               /\ proc[p].cachePath = NoPath
               /\ proc[p].ansiArt = <<>>
               /\ proc[p].shown = <<>>

C11_NoArtNoCache ==
    /\ []C11_NeverReachedCache
    /\ [][C11_FailsAtOnce]_vars

C11_Witness ==
    \E p \in Procs :
        /\ Finished(p)
        /\ proc[p].err = "no ANSI art or convertible images found"
        /\ NoPreRendered /\ NoSourceImage
        /\ cacheDir = "absent"
        /\ \A k \in CacheFiles : ~cache[k].exists

\* the cards a deck holds
KnownCards ==
    {<<"major_arcana", n>> : n \in MajorArcana}
        \cup {<<"minor_arcana", su, ra>> : su \in suits, ra \in ranks}

\* the step with which invocation p begins
Begins(p) == proc'[p].n # proc[p].n

\* a step of p during which a call reports a failure of one of the steps the
\* command names: deck path resolution, deck load, card lookup, art lookup
\* or generation, art file read
StepFails(p) ==
    \/ /\ Begins(p)
       /\ \/ proc'[p].deckFlag = "" /\ deck.config = "bad"
          \/ ~deck.found
          \/ deck.toml # "ok"
          \/ deck.names = "bad"
          \/ proc'[p].cardID \notin KnownCards
    \/ Leaves(p, "findAnsiFile") /\ NoPreRendered /\ NoSourceImage
    \/ Leaves(p, "cache") /\ cacheDir = "blocked"
    \/ /\ Leaves(p, "generateAnsiArt")
       /\ \/ images[proc[p].imagePath].kind # "picture"
          \/ cacheDir = "readonly"
    \/ proc[p].pc = "write" /\ proc'[p].off = proc[p].off /\ proc'[p] # proc[p]
    \/ Leaves(p, "loadAnsiArt") /\ ~Readable(proc[p].ansiPath, cache)

\* every failing step ends the command with an error and nothing shown
C12_FailingStepReturnsError ==
    \A p \in Procs :
        StepFails(p) => /\ proc'[p].pc = "done"
                        /\ proc'[p].err # "none"
                        /\ proc'[p].shown = <<>>

\* displayCard runs only as the last step, with no error
C12_DisplayLast ==
    \A p \in Procs :
        /\ proc[p].err # "none" => Finished(p) /\ proc[p].shown = <<>>
        /\ proc[p].shown # <<>> => Finished(p) /\ proc[p].err = "none"

\* imageToAnsi of the picture meets a pixel that colorful.MakeColor rejects
MakeColorFails(content, width, height) ==
    \E x \in 0..(2 * width - 1), y \in 0..(2 * height - 1) :
        ~MakeColor(getColorAt(Resize(2 * width, 2 * height, content), x, y)).ok

\* a step of p during which a call reports a failure outside the steps the
\* command names: os.ReadDir of the names directory in loadCardInfo,
\* colorful.MakeColor in imageToAnsi
OtherFailure(p) ==
    \/ Begins(p) /\ deck.names = "unreadable"
    \/ /\ Leaves(p, "generateAnsiArt")
       /\ images[proc[p].imagePath].kind = "picture"
       /\ MakeColorFails(images[proc[p].imagePath], ArtCols, ArtRows)

C12_NothingElseSwallowed ==
    \A p \in Procs : OtherFailure(p) => proc'[p].err # "none"

C12_DroppedFailures ==
    \A p \in Procs :
        /\ (/\ Begins(p) /\ deck = [GoodDeck EXCEPT !.names = "unreadable"]
            /\ proc'[p].cardID \in KnownCards)
               => proc'[p].pc = "findAnsiFile" /\ proc'[p].err = "none"
        /\ (/\ Leaves(p, "generateAnsiArt") /\ cacheDir # "readonly"
            /\ images[proc[p].imagePath] = Picture(RGBA(0, 0, 0, 0)))
               => /\ proc'[p].pc = "write" /\ proc'[p].err = "none"
                  /\ proc'[p].ansiArt =
                        [r \in 1..ArtRows |->
                            [cells |-> [i \in 1..ArtCols |->
                                          [glyph |-> "upper half block",
                                           fg |-> <<0, 0, 0>>, bg |-> <<0, 0, 0>>,
                                           reset |-> TRUE]],
                             nl |-> TRUE]]

Returned(fn) == calc.fn = fn /\ calc.done

\* C13: the grid.  For every decoded picture, whatever its size, and every
\* grid of width x height cells, imageToAnsi reads its pixels from a resized
\* picture of exactly 2*width x 2*height pixels, every coordinate it reads
\* lies within it, and the text it returns has exactly height rows, each of
\* exactly width glyph cells followed by a line feed.
C13_GridDimensions ==
    Returned("imageToAnsi") =>
        LET a == calc.args
            resized == Resize(a.width * 2, a.height * 2, a.img)
        IN  /\ Bounds(resized) = [Min |-> [X |-> 0, Y |-> 0],
                                  Max |-> [X |-> 2 * a.width, Y |-> 2 * a.height]]
            /\ \A r \in 1..Len(resized.px) : Len(resized.px[r]) = 2 * a.width
            /\ Len(calc.out) = a.height
            /\ \A r \in 1..Len(calc.out) :
                  /\ Len(calc.out[r].cells) = a.width
                  /\ calc.out[r].nl
                  /\ \A i \in 1..a.width :
                        calc.out[r].cells[i].glyph = "upper half block"

\* a picture larger than the grid's pixels, and one smaller, are rendered
C13_Witness ==
    /\ Returned("imageToAnsi")
    /\ Len(calc.args.img.px) > 2 * calc.args.height
    /\ Len(calc.args.img.px[1]) < 2 * calc.args.width
    /\ Len(calc.out) = calc.args.height

\* C14: reads outside the picture.  getColorAt returns the pixel at (x, y)
\* when the coordinate lies within the picture's bounds and opaque black
\* (0, 0, 0, 255) when it does not: for every coordinate it returns a
\* colour.  imageToAnsi returns its rows for every picture, smaller or
\* larger than the grid's pixels.
C14_OutOfBoundsIsBlack ==
    /\ Returned("getColorAt") =>
          LET a == calc.args
              inside == /\ 0 <= a.x /\ a.x < Len(a.img.px[1])
                        /\ 0 <= a.y /\ a.y < Len(a.img.px)
          IN  /\ calc.out = IF inside THEN a.img.px[a.y + 1][a.x + 1]
                             ELSE [R |-> 0, G |-> 0, B |-> 0, A |-> 255]
              /\ calc.out \in [R : 0..255, G : 0..255, B : 0..255, A : 0..255]
    /\ Returned("imageToAnsi") => Len(calc.out) = calc.args.height

\* a read right of a picture that has no black pixel
C14_Witness ==
    /\ Returned("getColorAt")
    /\ calc.args.x >= Len(calc.args.img.px[1])
    /\ calc.args.y = 0
    /\ \A r \in 1..Len(calc.args.img.px) : \A i \in 1..Len(calc.args.img.px[r]) :
          calc.args.img.px[r][i] = RGBA(255, 255, 255, 255)
    /\ calc.out = RGBA(0, 0, 0, 255)

\* C15: averageColor of two colours is the same in either order of the
\* arguments, and every channel of it is the mean of the two channels: it
\* lies between them and is off their half sum by less than one unit.
C15_AverageCommutes ==
    Returned("averageColor") =>
        LET c1 == calc.args.c1
            c2 == calc.args.c2
        IN  /\ calc.out = averageColor(c2, c1)
            /\ \A ch \in {"R", "G", "B"} :
                  /\ 2 * calc.out[ch] <= c1[ch] + c2[ch]
                  /\ c1[ch] + c2[ch] < 2 * calc.out[ch] + 2

C15_Witness ==
    /\ Returned("averageColor")
    /\ calc.args.c1 # calc.args.c2
    /\ calc.out \notin {calc.args.c1, calc.args.c2}

\* the string ends with the sequence
EndsWith(str, seq) ==
    /\ Len(str) >= Len(seq)
    /\ SubSeq(str, Len(str) - Len(seq) + 1, Len(str)) = seq

\* C16 (as claimed): every cell string ansiColorString returns, in either
\* colour mode, ends with the reset sequence.
C16_EveryCellEndsWithReset ==
    Returned("ansiColorString") => EndsWith(calc.out, ResetSequence)

\* C16 (amended): in the truecolor mode (use256Colors) the cell string is the
\* two colour sequences, the glyph and, at its end, the reset sequence; in
\* the 16-color fallback it is the glyph alone: it holds no escape sequence,
\* so it sets no colour and ends with no reset.
C16_ResetAfterColours ==
    Returned("ansiColorString") =>
        IF calc.args.use256Colors
        THEN /\ EndsWith(calc.out, <<"upper half block">> \o ResetSequence)
             /\ calc.out[1] = ESC
             /\ Cardinality({i \in 1..Len(calc.out) : calc.out[i] = ESC}) = 3
        ELSE calc.out = <<"upper half block">>

C16_Witness ==
    /\ Returned("ansiColorString")
    /\ calc.args.use256Colors
    /\ calc.args.fg # calc.args.bg
    /\ EndsWith(calc.out, ResetSequence)

\* C17 (as claimed): of the string of one glyph cell stripAnsi leaves exactly
\* the glyph, and the visible width displayCard measures of it is 1.
C17_CellWidthIsOne ==
    (Returned("visibleWidth") /\ Len(calc.args.cells) = 1)
        => /\ calc.out.stripped = <<"upper half block">>
           /\ calc.out.visibleWidth = 1

\* the positions of s that the scanner reads in the escape state: from an
\* ESC on, up to and with the first "m" after it
Excluded(s) ==
    {i \in 1..Len(s) :
        \E j \in 1..i : s[j] = ESC /\ \A k \in (j + 1)..(i - 1) : s[k] # "m"}

\* the characters of s at the positions of keep, in order
Restrict(s, keep) ==
    [n \in 1..Cardinality(keep) |->
        s[CHOOSE i \in keep : Cardinality({j \in keep : j < i}) = n - 1]]

\* C18: the scanner.  The result of stripAnsi is exactly the characters of
\* its argument, in order, that are not read in the escape state; the escape
\* state begins with an ESC and ends after the next "m", both excluded, and
\* an escape that is never ended excludes the rest of the string.
C18_TwoStateScanner ==
    Returned("stripAnsi") =>
        LET s == calc.args.s
        IN  /\ calc.out = Restrict(s, (1..Len(s)) \ Excluded(s))
            /\ (\E j \in 1..Len(s) :
                    s[j] = ESC /\ \A k \in (j + 1)..Len(s) : s[k] # "m")
                   => Len(calc.out) < Len(s)

\* an ended escape, a kept character, and an escape that is never ended
C18_Witness ==
    /\ Returned("stripAnsi")
    /\ calc.args.s = <<ESC, "[", "m", "a", ESC>>
    /\ calc.out = <<"a">>

\* the words of a line: the line cut at its single spaces
JoinWords(words) ==
    IF Len(words) = 0 THEN <<>>
    ELSE LET RECURSIVE join(_)
             join(i) == IF i = 1 THEN words[1]
                        ELSE join(i - 1) \o <<" ">> \o words[i]
         IN  join(Len(words))

\* lines is the greedy wrap of words at width w: the lines hold the words in
\* order, joined by single spaces; a word that follows another on its line
\* fitted (the line before it, a space and the word take at most w), and the
\* first word of every later line did not fit at the end of the line before
IsGreedyWrap(lines, words, w) ==
    IF Len(words) = 0 THEN lines = <<<<>>>>
    ELSE LET n == Len(lines)
             wordsOf == [l \in 1..n |-> Fields(lines[l])]
             RECURSIVE all(_)
             all(l) == IF l = 0 THEN <<>> ELSE all(l - 1) \o wordsOf[l]
         IN  /\ n >= 1
             /\ all(n) = words
             /\ \A l \in 1..n :
                   /\ Len(wordsOf[l]) >= 1
                   /\ lines[l] = JoinWords(wordsOf[l])
                   /\ \A k \in 2..Len(wordsOf[l]) :
                         Len(JoinWords(SubSeq(wordsOf[l], 1, k))) <= w
                   /\ l > 1 => Len(lines[l - 1]) + 1 + Len(wordsOf[l][1]) > w

C20_LineFitsOrOneWord ==
    Returned("wrapText") =>
        \A l \in 1..Len(calc.out) :
            \/ Len(calc.out[l]) <= calc.args.width
            \/ \E k \in 1..Len(Fields(calc.args.text)) :
                  calc.out[l] = Fields(calc.args.text)[k]

\* C20 (amended): with the width wrapText wraps at (the given width when it
\* is at least 10, else 40), every word of the text longer than that width is
\* a line of its own, whole, and every line is at most that width long or is
\* one single word of the text, whole.
C20_LineFitsEffectiveWidthOrOneWord ==
    Returned("wrapText") =>
        LET w == IF calc.args.width >= 10 THEN calc.args.width ELSE 40
            words == Fields(calc.args.text)
        IN  /\ \A l \in 1..Len(calc.out) :
                  \/ Len(calc.out[l]) <= w
                  \/ \E k \in 1..Len(words) : calc.out[l] = words[k]
            /\ \A k \in 1..Len(words) :
                  Len(words[k]) > w => \E l \in 1..Len(calc.out) : calc.out[l] = words[k]
            /\ Cardinality({k \in 1..Len(words) : Len(words[k]) > w})
                  = Cardinality({l \in 1..Len(calc.out) : Len(calc.out[l]) > w})

\* a word longer than the width after a word that fits
C20_Witness ==
    /\ Returned("wrapText")
    /\ calc.args.width >= 10
    /\ Len(calc.out) = 2
    /\ Len(calc.out[2]) > calc.args.width
    /\ calc.out[2] = Fields(calc.args.text)[2]

\* the number of columns a string takes on the terminal: one per character
\* that is left of it without its escape sequences
Columns(line) == Len(stripAnsi(line))

\* the largest number of columns a line of the art takes
WidestArt(lines) ==
    LET widths == {Columns(lines[i]) : i \in 1..Len(lines)}
    IN  CHOOSE m \in widths : \A w \in widths : w <= m

\* C21: the info width displayCard computes is max(20, terminal width -
\* (widest visible art width + 4) - 2), the art width being the columns the
\* widest line of the art takes; it is never below 20
C21_InfoWidth ==
    Returned("displayCard") =>
        LET free == calc.out.width - (WidestArt(calc.out.ansiLines) + 4) - 2
        IN  /\ calc.out.infoWidth = IF free > 20 THEN free ELSE 20
            /\ calc.out.infoWidth >= 20

\* the column at which the info text of a printed row starts: the two
\* blanks, the art line and the blanks after it
InfoColumn(row) == 2 + Columns(row.art) + row.pad

\* C22: displayCard prints max(#art lines, #info lines) rows; an art line is
\* padded to the reserved width (widest visible art width + 4), a row without
\* art line gets that many blanks, a row without info line nothing more; so
\* the info text starts at the same visible column on every row
C22_RowsAligned ==
    Returned("displayCard") =>
        LET o == calc.out
            reserved == WidestArt(o.ansiLines) + 4
            most == IF Len(o.ansiLines) > Len(o.infoLines)
                    THEN Len(o.ansiLines) ELSE Len(o.infoLines)
        IN  /\ Len(o.rows) = most
            /\ \A i \in 1..Len(o.rows) :
                  /\ o.rows[i].hasArt = (i <= Len(o.ansiLines))
                  /\ o.rows[i].hasArt => o.rows[i].art = o.ansiLines[i]
                  /\ Columns(o.rows[i].art) + o.rows[i].pad = reserved
                  /\ o.rows[i].hasInfo = (i <= Len(o.infoLines))
                  /\ ~o.rows[i].hasInfo => o.rows[i].info = <<>>
                  /\ InfoColumn(o.rows[i]) = InfoColumn(o.rows[1])

\* C29: the number of blanks printed after an art line is at least 4 for
\* every art line, whatever the art: never negative
C29_PaddingAtLeastFour ==
    Returned("displayCard") =>
        \A i \in 1..Len(calc.out.rows) :
            /\ calc.out.rows[i].pad >= 4
            /\ calc.out.rows[i].hasArt =>
                  calc.out.rows[i].pad =
                      calc.out.infoStartCol - visibleWidth(calc.out.rows[i].art)

\* an art whose lines differ in width was laid out: the widest line gets
\* 4 blanks, a shorter one more
C29_Witness ==
    /\ Returned("displayCard")
    /\ \E i, j \in 1..Len(calc.out.ansiLines) :
          /\ calc.out.rows[i].pad = 4
          /\ calc.out.rows[j].pad > 4
          /\ visibleWidth(calc.out.ansiLines[i]) > 0
          /\ j < Len(calc.out.ansiLines)

\* C30: wrapText loses nothing: its lines joined by single spaces are the
\* words of the text joined by single spaces, and no line is empty, but that
\* a text without words gives the single line ""
C30_NothingLost ==
    Returned("wrapText") =>
        /\ JoinWords(calc.out) = JoinWords(Fields(calc.args.text))
        /\ Fields(calc.args.text) = <<>> => calc.out = <<<<>>>>
        /\ Fields(calc.args.text) # <<>> =>
              \A i \in 1..Len(calc.out) : calc.out[i] # <<>>

\* a text with a blank before its words and a run of blanks between them
\* was wrapped into several lines
C30_Witness ==
    /\ Returned("wrapText")
    /\ Len(calc.out) >= 2
    /\ Head(calc.args.text) = " "
    /\ \E i \in 2..(Len(calc.args.text) - 2) :
          calc.args.text[i] = " " /\ calc.args.text[i + 1] = " "
    /\ JoinWords(calc.out) # calc.args.text

\* the card IDs of a deck: major_arcana.NN with NN in 00..21, and
\* minor_arcana.<suit>.<rank>
IsCardID(parts) ==
    \/ /\ Len(parts) = 2
       /\ parts[1] = "major_arcana"
       /\ parts[2] \in {"00", "01", "02", "03", "04", "05", "06", "07", "08",
                        "09", "10", "11", "12", "13", "14", "15", "16", "17",
                        "18", "19", "20", "21"}
    \/ /\ Len(parts) = 3
       /\ parts[1] = "minor_arcana"
       /\ parts[2] \in {"wands", "cups", "swords", "pentacles"}
       /\ parts[3] \in {"ace", "two", "three", "four", "five", "six", "seven",
                        "eight", "nine", "ten", "page", "knight", "queen",
                        "king"}

\* C23: GetCard succeeds exactly for the card IDs of the deck, and gives the
\* card of that ID; for every other ID it returns an error and no card
C23_GetCardExactlyKnownIds ==
    Returned("GetCard") =>
        /\ (calc.out.err = "none") = IsCardID(calc.args.parts)
        /\ calc.out.err = "none" => calc.out.card.ID = calc.args.parts
        /\ calc.out.err # "none" => calc.out.card = NoCard

\* an ID whose first parts are those of a card, with one part more, was
\* refused
C23_Witness ==
    /\ Returned("GetCard")
    /\ Len(calc.args.parts) = 3
    /\ IsCardID(SubSeq(calc.args.parts, 1, 2))
    /\ calc.out.err = "invalid card ID format"
    /\ calc.out.card = NoCard

\* C25: without names directory, or with one that holds no language (.toml)
\* file, LoadDeck succeeds and every one of the 22 + 56 cards has its
\* non-empty default name
C25_DefaultNames ==
    (Returned("LoadDeck") /\ calc.args.d.toml = "ok"
       /\ calc.args.d.names \in {"nodir", "empty", "notoml"}) =>
        /\ calc.out.err = "none"
        /\ DOMAIN calc.out.deck.MajorArcana = MajorArcana
        /\ DOMAIN calc.out.deck.MinorArcana = suits
        /\ \A n \in MajorArcana :
              /\ calc.out.deck.MajorArcana[n].Name = getDefaultMajorArcanaName(n)
              /\ calc.out.deck.MajorArcana[n].Name # <<>>
        /\ \A s \in suits :
              /\ DOMAIN calc.out.deck.MinorArcana[s] = ranks
              /\ \A r \in ranks :
                    /\ calc.out.deck.MinorArcana[s][r].Name =
                          getDefaultMinorArcanaName(r, s)
                    /\ calc.out.deck.MinorArcana[s][r].Name # <<>>

\* C24: validate succeeds exactly when deck.toml is present and parseable
\* and no check recorded an error; without a parseable deck.toml Validate
\* returns its error after that one check; any recorded error fails the
\* command; warnings alone never do
C24_ValidateSucceedsIffNoErrors ==
    Returned("validate") =>
        LET dir == calc.args.dir
            v == Validate(dir)
        IN  /\ (calc.out.err = "none") =
                  (dir.exists /\ dir.toml = "ok" /\ v.err = "none"
                     /\ v.Results.Errors = <<>>)
            /\ dir.toml # "ok" =>
                  /\ v.err # "none"
                  /\ v.Results.checks = 1
                  /\ v.Results.Errors = <<>> /\ v.Results.Warnings = <<>>
            /\ dir.toml = "ok" => v.err = "none" /\ v.Results.checks = 7
            /\ (calc.out.validated /\ v.Results.Errors # <<>>) =>
                  calc.out.err = "validation failed"
            /\ (v.err = "none" /\ v.Results.Errors = <<>>
                  /\ v.Results.Warnings # <<>>) =>
                  /\ calc.out.err = "none"
                  /\ calc.out.printed = <<"is valid">> \o v.Results.Warnings

\* a deck with warnings and no error was validated
C24_Witness ==
    /\ Returned("validate")
    /\ calc.out.err = "none"
    /\ Len(calc.out.printed) > 2

\* the deck of that name resolves and loads
ValidDeck(deckName) ==
    /\ GetDeckPath(deckName).err = "none"
    /\ LoadDeckError(OnDisk(deckName).d) = "none"

\* what GetDefaultDeck returns of a config file: the name, or the error
DefaultOf(cfg) ==
    IF GetDefaultDeck(cfg, "ok").err # "none" THEN GetDefaultDeck(cfg, "ok").err
    ELSE GetDefaultDeck(cfg, "ok").DefaultDeck

\* C27: set-default leaves the config file alone unless the named deck
\* resolves and loads; after a set-default that succeeded GetDefaultDeck
\* returns its name, and after one that did not what it returned before: so
\* after any sequence it returns the name of the last successful one, or
\* the initial default
C27_DefaultIsLastSuccessful ==
    [][(calc'.fn = "set-default" /\ calc'.calls = calc.calls + 1) =>
          /\ ~ValidDeck(calc'.args.deckName) => config' = config
          /\ calc'.out = "Default deck set to" =>
                /\ ValidDeck(calc'.args.deckName)
                /\ DefaultOf(config') = calc'.args.deckName
          /\ calc'.out # "Default deck set to" =>
                DefaultOf(config') = DefaultOf(config)]_vars

\* the position of x in the sequence, 0 when it is not in it
Position(seq, x) ==
    IF \E i \in 1..Len(seq) : seq[i] = x
    THEN CHOOSE i \in 1..Len(seq) : seq[i] = x
    ELSE 0

\* file f comes before file g in the priority order: it is in a standard
\* directory and g in a later one or in none, or both are in the same
\* directory and f has the earlier extension
ComesBefore(f, g) ==
    LET standard == <<"scalable", "h2400", "h1200", "h750">>
        exts == <<".svg", ".png", ".jpg", ".jpeg", ".webp">>
    IN  \/ /\ Position(standard, f[1]) > 0
           /\ \/ Position(standard, g[1]) = 0
              \/ Position(standard, f[1]) < Position(standard, g[1])
        \/ /\ f[1] = g[1]
           /\ Position(exts, f[4]) < Position(exts, g[4])

ImageErrors == {"failed to open image", "failed to decode image"}

\* C28: when generateAnsiArt fails because the image cannot be opened or
\* decoded, no cache file is created or changed and there is none at the
\* cache path; the next show of the same image misses the cache and renders
\* again
C28_FailedRenderLeavesNoCache ==
    /\ [][\A p \in Procs :
            (proc[p].pc = "generateAnsiArt" /\ proc'[p].err \in ImageErrors) =>
                /\ cache' = cache
                /\ ~cache'[proc[p].cachePath].exists]_vars
    /\ [](\A p, q \in Procs :
            (/\ Finished(p) /\ proc[p].err \in ImageErrors
             /\ proc[q].n = proc[p].n + 1
             /\ proc[q].imagePath = proc[p].imagePath
             /\ proc[q].branch # "none") => proc[q].branch = "miss")

\* a show failed on an image it could not decode, and the next show of the
\* same image has missed the cache
C28_Witness ==
    \E p, q \in Procs :
        /\ Finished(p) /\ proc[p].err = "failed to decode image"
        /\ proc[q].n = proc[p].n + 1
        /\ proc[q].imagePath = proc[p].imagePath
        /\ proc[q].branch = "miss"

TypeOK ==
    /\ ansi \in [{"ansi32", "ansi256"} -> AnsiStates]
    /\ images \in [DeckFiles -> ImageContents]
    /\ cacheDir \in {"absent", "present", "blocked", "readonly"}
    /\ \A k \in CacheFiles : cache[k].exists \in BOOLEAN
    /\ shows \in 0..MaxShows
    /\ edits \in 0..MaxEdits
    /\ deck \in DeckStates
    /\ config.state \in {"absent", "bad", "ok"}
    /\ calc.fn \in {"none", "imageToAnsi", "getColorAt", "averageColor",
                    "ansiColorString", "stripAnsi", "visibleWidth", "wrapText",
                    "displayCard", "LoadDeck", "GetCard", "validate",
                    "set-default", "GetDefaultDeck", "findCardImage"}

====
